---- MODULE Spec2Model ----
(***************************************************************************)
(* Model of the AV signal-synchronised speed advisory of                   *)
(* src/monitoring/integrated_monitor.py:                                   *)
(*   - AVSignalPredictor.calculate_speed           (specification SpecSpeed)*)
(*   - AVSignalPredictor.calculate_time_to_green   (specification SpecTiming)*)
(*     with calculate_time_to_red and get_green_phase_duration             *)
(*   - AVSignalPredictor.get_signal_direction_index                        *)
(*                                            (specification SpecDirection)*)
(*   - IntegratedMonitor.update_av_signal_monitoring and the operations    *)
(*     around it in main                      (specifications Spec and     *)
(*                                             SpecUnmapped)               *)
(*   - main's handling of --vehicles and --av-penetration                  *)
(*                                            (specification SpecParams)   *)
(*   - IntegratedMonitor.update_vehicle_control                            *)
(*                                            (specification SpecControl)  *)
(*   - IntegratedMonitor.update_stop_monitoring                            *)
(*                                            (specification SpecStops)    *)
(*                                                                         *)
(* Units.  Python floats are modelled by exact arithmetic on integers:     *)
(* times are in tenths of a second, lengths in tenths of a metre, the AV   *)
(* penetration P in thousandths.  A speed is an exact fraction <<n, d>> in *)
(* lowest terms (n/d, d > 0), compared by cross multiplication.            *)
(***************************************************************************)
EXTENDS Integers, Sequences, FiniteSets, TLC

VARIABLES
    \* ---- calculate_speed (SpecSpeed) ----
    speed_pc,      \* "idle" (arguments chosen) | "returned"
    speed_args,    \* [L, P, S, R, G] the arguments of the call
    speed_ret,     \* [raised, v] what the call produced
    \* ---- calculate_time_to_green (SpecTiming) ----
    timing_pc,     \* "idle" | "returned" | "red_returned" | "duration_returned"
    tls,           \* the simulator's answer for the junction (see TlsInProgram)
    signal_index,  \* the direction index passed to the extractor
    ttg_ret,       \* [v, visits, diverged] result of calculate_time_to_green
    ttr_ret,       \* [v, visits, diverged] result of calculate_time_to_red
    gpd_ret,       \* [v, visits, diverged] result of get_green_phase_duration
    \* ---- get_signal_direction_index (SpecDirection) ----
    dir_args,      \* [junction_id, edge_id, answer] the last call and what getControlledLanes gave
    dir_ret,       \* [index, queried] what the last call returned, whether it asked the simulator
    \* ---- IntegratedMonitor (Spec) ----
    sim_time,              \* traci.simulation.getTime(), in tenths of a second
    sim_vehicles,          \* simulator: vehicle id -> "pending" | edge id | "arrived"
    sim_types,             \* simulator: vehicle id -> type id ("none" before it is added)
    sim_tls,               \* simulator: [phase, next] current phase and time to next switch
    sim_speed_writes,      \* simulator: sequence of setSpeed calls [vehicle_id, edge, speed]
    direction_cache,       \* AVSignalPredictor.direction_cache (dict as a set of <<key, index>>)
    vehicle_types,         \* IntegratedMonitor.vehicle_types (dict as a set of <<id, type>>)
    av_vehicles_tracked,   \* IntegratedMonitor.av_vehicles_tracked (set of tracking keys)
    av_signal_predictions, \* IntegratedMonitor.av_signal_predictions (list of records)
    target_vehicle_count,  \* IntegratedMonitor.target_vehicle_count
    target_av_penetration, \* IntegratedMonitor.target_av_penetration, in thousandths
    vehicle_id_counter,    \* IntegratedMonitor.vehicle_id_counter
    last_vehicle_control_time, \* IntegratedMonitor.last_vehicle_control_time
    target_road_edges,     \* IntegratedMonitor.target_road_edges
    saved_predictions,     \* what save_results wrote: [written, records]
    loop_pc,               \* main: "start" | "step" | "co2" | "av" | "control" | "done" | "interrupted"
    args,                  \* main: the command line, [vehicles, av_penetration (percent)]
    add_attempts,          \* add_vehicle calls made by the last update_vehicle_control
    on_link_since,         \* history: pairs <<id, edge>> recorded, vehicle on the edge ever since
    \* ---- IntegratedMonitor.update_stop_monitoring (SpecStops) ----
    stop_pc,               \* main: "step" (before simulationStep) | "check" (after it)
    stop_step_length,      \* the step length of the simulation configuration, tenths of a second
    stop_time,             \* traci.simulation.getTime(), in tenths of a second
    last_check_time,       \* main: last_check_time
    stop_world,            \* simulator: vehicle id -> Absent | [edge, speed (tenths of m/s)]
    vehicle_stop_states,   \* IntegratedMonitor.vehicle_stop_states: id -> [start_time, edge, counted]
    stop_counts,           \* IntegratedMonitor.stop_counts: edge -> count (edges counted so far)
    stop_events,           \* IntegratedMonitor.stop_events (list of records)
    stop_episodes,         \* history: id -> [start, checks, due] of the stop it is observed in
    stop_due_total         \* history: the episodes that reached a check MIN_STOP_DURATION after their start

speed_vars  == <<speed_pc, speed_args, speed_ret>>
timing_vars == <<timing_pc, tls, signal_index, ttg_ret, ttr_ret, gpd_ret>>
monitor_vars == <<sim_time, sim_vehicles, sim_types, sim_tls, sim_speed_writes, direction_cache,
                  vehicle_types, av_vehicles_tracked, av_signal_predictions,
                  target_vehicle_count, target_av_penetration, vehicle_id_counter,
                  last_vehicle_control_time, loop_pc, on_link_since,
                  target_road_edges, saved_predictions, args, add_attempts>>
direction_vars == <<dir_args, dir_ret>>
stop_vars == <<stop_pc, stop_step_length, stop_time, last_check_time, stop_world,
               vehicle_stop_states, stop_counts, stop_events, stop_episodes, stop_due_total>>
vars == <<speed_vars, timing_vars, direction_vars, monitor_vars, stop_vars>>

(***************************************************************************)
(* Exact fractions                                                         *)
(***************************************************************************)
Abs(x) == IF x < 0 THEN -x ELSE x

RECURSIVE Gcd(_, _)
Gcd(a, b) == IF b = 0 THEN a ELSE Gcd(b, a % b)

\* the fraction n/d (d # 0) in lowest terms with a positive denominator
Frac(n, d) ==
    LET g == Gcd(Abs(n), Abs(d))
    IN  IF d < 0 THEN <<(-n) \div g, (-d) \div g>> ELSE <<n \div g, d \div g>>

\* a <= b for fractions in lowest terms
FracLeq(a, b) == a[1] * b[2] <= b[1] * a[2]

FracLt(a, b) == ~FracLeq(b, a)

FracEq(a, b) == a[1] * b[2] = b[1] * a[2]

Whole(n) == <<n, 1>>

(***************************************************************************)
(* AVSignalPredictor.calculate_speed                                       *)
(***************************************************************************)
C == 90

vj == 60

MaxSaneSpeed == 100

\* a value returned normally / an exception leaving the function
Return(v) == [raised |-> FALSE, v |-> v]

Raise == [raised |-> TRUE, v |-> Whole(0)]

\* T = G * P taking P for a percentage: T = G * P / 100
Threshold_percent(G, P) == (G * P) \div 100

\* line 325: T = G * P, in 1/10000 s (G in tenths of a second, P in thousandths)

Threshold(G, P) == G * P

\* (L / t) * 3.6 in km/h; Python raises ZeroDivisionError when t = 0
KmhOver(L, t) == IF t = 0 THEN Raise ELSE Return(Frac(36 * L, 10 * t))

\* line 328, with the comparison S <= 0.1 dropped
GuardFires_noS(L, S, R, G) == R <= 1 \/ L <= 1 \/ G <= 0

\* line 328: S <= 0.1 or R <= 0.1 or L <= 0.1 or G <= 0
GuardFires(L, S, R, G) == S <= 1 \/ R <= 1 \/ L <= 1 \/ G <= 0

\* lines 335-345 with the first two tests exchanged
SpeedDecision_swapped(L, P, S, R, G) ==
    LET T  == Threshold(G, P)
        vS == KmhOver(L, S)
        vR == KmhOver(L, R)
    IN  IF vS.raised THEN vS
        ELSE IF FracLeq(vS.v, Whole(vj)) THEN vS
        ELSE IF 1000 * R <= T THEN Return(Whole(vj))
        ELSE IF vR.raised THEN vR
        ELSE IF FracLeq(vR.v, Whole(vj)) THEN Return(Whole(vj))
        ELSE IF S + 10 * C > 1 THEN KmhOver(L, S + 10 * C)
        ELSE Return(Whole(vj))

\* lines 335-345 with the m/s to km/h factor 3.6 forgotten in branch 4
SpeedDecision_ms(L, P, S, R, G) ==
    LET T  == Threshold(G, P)
        vS == KmhOver(L, S)
        vR == KmhOver(L, R)
    IN  IF 1000 * R <= T THEN Return(Whole(vj))
        ELSE IF vS.raised THEN vS
        ELSE IF FracLeq(vS.v, Whole(vj)) THEN Return(Frac(L, S))
        ELSE IF vR.raised THEN vR
        ELSE IF FracLeq(vR.v, Whole(vj)) THEN Return(Whole(vj))
        ELSE IF S + 10 * C > 1 THEN KmhOver(L, S + 10 * C)
        ELSE Return(Whole(vj))

\* lines 335-345 with the cycle length left out of the last branch
SpeedDecision_nocycle(L, P, S, R, G) ==
    LET T  == Threshold(G, P)
        vS == KmhOver(L, S)
        vR == KmhOver(L, R)
    IN  IF 1000 * R <= T THEN Return(Whole(vj))
        ELSE IF vS.raised THEN vS
        ELSE IF FracLeq(vS.v, Whole(vj)) THEN vS
        ELSE IF vR.raised THEN vR
        ELSE IF FracLeq(vR.v, Whole(vj)) THEN Return(Whole(vj))
        ELSE vS

\* lines 335-345, with branch 5 advising the arrival speed for the end of green
SpeedDecision_arrival(L, P, S, R, G) ==
    LET T  == Threshold(G, P)
        vS == KmhOver(L, S)
        vR == KmhOver(L, R)
    IN  IF 1000 * R <= T THEN Return(Whole(vj))
        ELSE IF vS.raised THEN vS
        ELSE IF FracLeq(vS.v, Whole(vj)) THEN vS
        ELSE IF vR.raised THEN vR
        ELSE IF FracLeq(vR.v, Whole(vj)) THEN vR
        ELSE IF S + 10 * C > 1 THEN KmhOver(L, S + 10 * C)
        ELSE Return(Whole(vj))

\* lines 335-345: the if / elif chain that picks v
SpeedDecision(L, P, S, R, G) ==
    LET T  == Threshold(G, P)
        vS == KmhOver(L, S)
        vR == KmhOver(L, R)
    IN  IF 1000 * R <= T THEN Return(Whole(vj))
        ELSE IF vS.raised THEN vS
        ELSE IF FracLeq(vS.v, Whole(vj)) THEN vS
        ELSE IF vR.raised THEN vR
        ELSE IF FracLeq(vR.v, Whole(vj)) THEN Return(Whole(vj))
        ELSE IF S + 10 * C > 1 THEN KmhOver(L, S + 10 * C)
        ELSE Return(Whole(vj))

\* lines 348-351 without the upper limit
SanityCheck_noupper(v) == IF FracLeq(v, Whole(0)) THEN Whole(vj) ELSE v

\* lines 348-351: if v <= 0 or v > 100: v = vj
SanityCheck(v) ==
    IF FracLeq(v, Whole(0)) \/ FracLt(Whole(MaxSaneSpeed), v) THEN Whole(vj) ELSE v

\* lines 309-353
calculate_speed(L, P, S, R, G) ==
    IF GuardFires(L, S, R, G) THEN Return(Whole(vj))
    ELSE LET d == SpeedDecision(L, P, S, R, G)
         IN  IF d.raised THEN d ELSE Return(SanityCheck(d.v))

(***************************************************************************)
(* Bounds of the argument grid of calculate_speed                          *)
(***************************************************************************)
MaxLk == 6

MaxTk == 5

MaxGk == 3

\* link lengths: negative, 0, 0.1 m, 0.2 m, 100 m and 500 m .. 500*MaxLk m
LValues == {-10, 0, 1, 2, 1000} \cup {5000 * k : k \in 1..MaxLk}

\* times to green / red: negative, 0, 0.1 s, 0.2 s, 5 s and 10 s .. 10*MaxTk s
TimeValues == {-10, 0, 1, 2, 50} \cup {100 * k : k \in 1..MaxTk}

\* green durations: negative, 0 and 10 s .. 10*MaxGk s
GValues == {-10, 0} \cup {100 * k : k \in 1..MaxGk}

\* AV penetration 0, 0.5, 1
PValues == {0, 500, 1000}

SpeedArgs == [L : LValues, P : PValues, S : TimeValues, R : TimeValues, G : GValues]

(***************************************************************************)
(* Signal timing extractor: AVSignalPredictor.calculate_time_to_green,     *)
(* calculate_time_to_red, get_green_phase_duration                         *)
(*                                                                         *)
(* A junction as the simulator reports it:                                 *)
(*   kind   "missing"    : every traci.trafficlight query raises           *)
(*          "noprograms" : getCompleteRedYellowGreenDefinition returns []  *)
(*          "ok"         : programs[0].phases = phases                     *)
(*   state  getRedYellowGreenState, one character per direction            *)
(*   phase  getPhase                                                       *)
(*   next   getNextSwitch - getTime, tenths of a second                    *)
(*   phases sequence of [state, duration]                                  *)
(***************************************************************************)
\* str.upper() on one character of a phase state
Upper(ch) ==
    CASE ch = "g" -> "G"
      [] ch = "y" -> "Y"
      [] ch = "r" -> "R"
      [] OTHER    -> ch

\* signal_index < len(phase_state) and phase_state[signal_index].upper() == colour
HasColour(state, idx, colour) == idx < Len(state) /\ Upper(state[idx + 1]) = colour

\* lines 162, 178, 227, 284: the direction is green in this phase state
IsGreen(state, idx) == HasColour(state, idx, "G")

\* what a walk hands back: the value, the phases it looked at, whether it never ends
Walked(v, visits) == [v |-> v, visits |-> visits, diverged |-> FALSE]

NeverEnds(visits) == [v |-> 0, visits |-> visits, diverged |-> TRUE]

\* lines 158-168: while next_phase_idx != current_phase.  Once len(phases)
\* phases were looked at without meeting current_phase or a green phase the
\* loop is back where it started with nothing to stop it.
RECURSIVE GreenWalk(_, _, _, _, _, _, _)
GreenWalk(phases, idx, current_phase, t, acc, next, visits) ==
    IF next = current_phase THEN Walked(t, visits)
    ELSE IF visits >= Len(phases) THEN NeverEnds(visits)
    ELSE IF IsGreen(phases[next + 1].state, idx) THEN Walked(acc, visits + 1)
    ELSE GreenWalk(phases, idx, current_phase, t, acc + phases[next + 1].duration,
                   (next + 1) % Len(phases), visits + 1)

\* lines 174-187 with lines 178-181 in the other order: the duration of the
\* green phase is added before the return
RECURSIVE OtherWalk_inclusive(_, _, _, _, _, _)
OtherWalk_inclusive(phases, idx, first, acc, next, visits) ==
    LET acc2  == acc + phases[next + 1].duration
        next2 == (next + 1) % Len(phases)
    IN  IF IsGreen(phases[next + 1].state, idx) THEN Walked(acc2, visits + 1)
        ELSE IF next2 = first THEN Walked(acc2, visits + 1)
        ELSE OtherWalk_inclusive(phases, idx, first, acc2, next2, visits + 1)

\* lines 174-187: while True ... break when the walk is back at its first phase
RECURSIVE OtherWalk(_, _, _, _, _, _)
OtherWalk(phases, idx, first, acc, next, visits) ==
    IF IsGreen(phases[next + 1].state, idx) THEN Walked(acc, visits + 1)
    ELSE LET acc2  == acc + phases[next + 1].duration
             next2 == (next + 1) % Len(phases)
         IN  IF next2 = first THEN Walked(acc2, visits + 1)
             ELSE OtherWalk(phases, idx, first, acc2, next2, visits + 1)

\* lines 153-168: the direction is green now
TimeToGreenWhenGreen(j, idx) ==
    GreenWalk(j.phases, idx, j.phase, j.next, j.next, (j.phase + 1) % Len(j.phases), 0)

\* lines 169-187 with the remaining time of the current phase left out
TimeToGreenOtherwise_noRemaining(j, idx) ==
    LET first == (j.phase + 1) % Len(j.phases)
    IN  OtherWalk(j.phases, idx, first, 0, first, 0)

\* lines 169-187: the direction is red or yellow now
TimeToGreenOtherwise(j, idx) ==
    LET first == (j.phase + 1) % Len(j.phases)
    IN  OtherWalk(j.phases, idx, first, j.next, first, 0)

\* lines 130-192.  Every exception is caught at line 189 and turned into 0.0:
\* a missing junction (TraCIException), an empty phase list (modulo by zero).
calculate_time_to_green(j, idx) ==
    IF j.kind = "missing" THEN Walked(0, 0)
    ELSE IF j.kind = "noprograms" THEN Walked(0, 0)
    ELSE IF idx >= Len(j.state) THEN Walked(0, 0)
    ELSE IF Len(j.phases) = 0 THEN Walked(0, 0)
    ELSE IF Upper(j.state[idx + 1]) = "G" THEN TimeToGreenWhenGreen(j, idx)
    ELSE TimeToGreenOtherwise(j, idx)

\* lines 217-243 without lines 231-236, the yellow phase after the green one
RECURSIVE RedWalk_noYellow(_, _, _, _, _, _)
RedWalk_noYellow(phases, idx, current_phase, acc, next, visits) ==
    IF next = current_phase THEN Walked(acc, visits)
    ELSE IF visits >= Len(phases) THEN NeverEnds(visits)
    ELSE IF IsGreen(phases[next + 1].state, idx)
         THEN Walked(acc + phases[next + 1].duration, visits + 1)
    ELSE RedWalk_noYellow(phases, idx, current_phase, acc + phases[next + 1].duration,
                          (next + 1) % Len(phases), visits + 1)

\* lines 217-243 without line 229, the duration of the green phase itself
RECURSIVE RedWalk_noGreen(_, _, _, _, _, _)
RedWalk_noGreen(phases, idx, current_phase, acc, next, visits) ==
    IF next = current_phase THEN Walked(acc, visits)
    ELSE IF visits >= Len(phases) THEN NeverEnds(visits)
    ELSE IF IsGreen(phases[next + 1].state, idx)
         THEN LET yellow == phases[((next + 1) % Len(phases)) + 1]
              IN  Walked(acc + (IF HasColour(yellow.state, idx, "Y") THEN yellow.duration ELSE 0),
                         visits + 1)
    ELSE RedWalk_noGreen(phases, idx, current_phase, acc + phases[next + 1].duration,
                         (next + 1) % Len(phases), visits + 1)

\* lines 217-243: the direction is red now
RECURSIVE RedWalk(_, _, _, _, _, _)
RedWalk(phases, idx, current_phase, acc, next, visits) ==
    IF next = current_phase THEN Walked(acc, visits)
    ELSE IF visits >= Len(phases) THEN NeverEnds(visits)
    ELSE IF IsGreen(phases[next + 1].state, idx)
         THEN LET yellow == phases[((next + 1) % Len(phases)) + 1]
              IN  Walked(acc + phases[next + 1].duration
                             + (IF HasColour(yellow.state, idx, "Y") THEN yellow.duration ELSE 0),
                         visits + 1)
    ELSE RedWalk(phases, idx, current_phase, acc + phases[next + 1].duration,
                 (next + 1) % Len(phases), visits + 1)

\* lines 194-268 without lines 249-254, the yellow phase after the current green
calculate_time_to_red_noYellow(j, idx) ==
    IF j.kind = "missing" THEN Walked(0, 0)
    ELSE IF j.kind = "noprograms" THEN Walked(0, 0)
    ELSE IF idx >= Len(j.state) THEN Walked(0, 0)
    ELSE IF Upper(j.state[idx + 1]) = "R"
         THEN IF Len(j.phases) = 0 THEN Walked(0, 0)
              ELSE RedWalk(j.phases, idx, j.phase, j.next, (j.phase + 1) % Len(j.phases), 0)
    ELSE IF Upper(j.state[idx + 1]) = "G"
         THEN IF Len(j.phases) = 0 THEN Walked(0, 0) ELSE Walked(j.next, 1)
    ELSE IF Upper(j.state[idx + 1]) = "Y" THEN Walked(j.next, 0)
    ELSE Walked(0, 0)

\* lines 194-268
calculate_time_to_red(j, idx) ==
    IF j.kind = "missing" THEN Walked(0, 0)
    ELSE IF j.kind = "noprograms" THEN Walked(0, 0)
    ELSE IF idx >= Len(j.state) THEN Walked(0, 0)
    ELSE IF Upper(j.state[idx + 1]) = "R"
         THEN IF Len(j.phases) = 0 THEN Walked(0, 0)
              ELSE RedWalk(j.phases, idx, j.phase, j.next, (j.phase + 1) % Len(j.phases), 0)
    ELSE IF Upper(j.state[idx + 1]) = "G"
         THEN IF Len(j.phases) = 0 THEN Walked(0, 0)
              ELSE LET following == j.phases[((j.phase + 1) % Len(j.phases)) + 1]
                   IN  Walked(j.next + (IF HasColour(following.state, idx, "Y")
                                        THEN following.duration ELSE 0), 1)
    ELSE IF Upper(j.state[idx + 1]) = "Y" THEN Walked(j.next, 0)
    ELSE Walked(0, 0)

\* lines 283-287, with the phases looked at from the last one backwards
RECURSIVE FirstGreenDuration_last(_, _, _)
FirstGreenDuration_last(phases, idx, k) ==
    IF k > Len(phases) THEN Walked(0, k - 1)
    ELSE IF IsGreen(phases[Len(phases) + 1 - k].state, idx)
         THEN Walked(phases[Len(phases) + 1 - k].duration, k)
    ELSE FirstGreenDuration_last(phases, idx, k + 1)

\* lines 283-287: the first phase, in program order, that is green for the direction
RECURSIVE FirstGreenDuration(_, _, _)
FirstGreenDuration(phases, idx, k) ==
    IF k > Len(phases) THEN Walked(0, k - 1)
    ELSE IF IsGreen(phases[k].state, idx) THEN Walked(phases[k].duration, k)
    ELSE FirstGreenDuration(phases, idx, k + 1)

\* lines 270-292
get_green_phase_duration(j, idx) ==
    IF j.kind = "missing" THEN Walked(0, 0)
    ELSE IF j.kind = "noprograms" THEN Walked(0, 0)
    ELSE FirstGreenDuration(j.phases, idx, 1)

(***************************************************************************)
(* Bounds and input sets of the timing extractor                           *)
(***************************************************************************)
MaxPhases == 3

\* one direction per state string: index 0 is a direction, index 1 is past the end
PhaseStates == {<<"G">>, <<"g">>, <<"y">>, <<"r">>}

\* phase durations: 0 s and 3 s
PhaseDurations == {0, 30}

PhaseSet == [state : PhaseStates, duration : PhaseDurations]

PhasePrograms == UNION {[1..n -> PhaseSet] : n \in 0..MaxPhases}

\* time to the next switch: 0 s and 5 s
SwitchTimes == {0, 50}

SignalIndexes == {0, 1}

\* the junction as the simulator reports it: unknown to the simulator, or
\* known with an empty list of programs
TlsFailures ==
    {[kind |-> "missing", state |-> <<>>, phase |-> 0, next |-> 0, phases |-> <<>>],
     [kind |-> "noprograms", state |-> <<"r">>, phase |-> 0, next |-> 50, phases |-> <<>>]}

\* getPhase is an index of programs[0] and the reported state is that phase's
TlsInProgram ==
    {[kind |-> "ok", state |-> p[ph + 1].state, phase |-> ph, next |-> t, phases |-> p] :
        <<p, ph, t>> \in {x \in PhasePrograms \X (0..MaxPhases) \X SwitchTimes :
                            x[2] < Len(x[1])}}

\* the active program is not programs[0]: getPhase is past its last phase and
\* the reported state is any state
TlsOtherProgram ==
    {[kind |-> "ok", state |-> st, phase |-> Len(p), next |-> t, phases |-> p] :
        <<p, st, t>> \in PhasePrograms \X PhaseStates \X SwitchTimes}

(***************************************************************************)
(* State after construction of the parts a specification leaves alone      *)
(***************************************************************************)
VehicleIdStart == 2000

DefaultPenetration == 500

SpeedIdle ==
    /\ speed_pc = "idle"
    /\ speed_args = [L |-> 0, P |-> 0, S |-> 0, R |-> 0, G |-> 0]
    /\ speed_ret = Return(Whole(0))

TimingIdle ==
    /\ timing_pc = "idle"
    /\ tls = [kind |-> "missing", state |-> <<>>, phase |-> 0, next |-> 0, phases |-> <<>>]
    /\ signal_index = 0
    /\ ttg_ret = Walked(0, 0)
    /\ ttr_ret = Walked(0, 0)
    /\ gpd_ret = Walked(0, 0)

(***************************************************************************)
(* SpecSpeed: one call of calculate_speed on arguments of the grid         *)
(***************************************************************************)
CallCalculateSpeed ==
    /\ speed_pc = "idle"
    /\ speed_ret' = calculate_speed(speed_args.L, speed_args.P, speed_args.S,
                                    speed_args.R, speed_args.G)
    /\ speed_pc' = "returned"
    /\ UNCHANGED <<stop_vars, speed_args, timing_vars, monitor_vars, direction_vars>>

(***************************************************************************)
(* SpecTiming: one call of a function of the timing extractor              *)
(***************************************************************************)
CallTimeToGreen ==
    /\ timing_pc = "idle"
    /\ ttg_ret' = calculate_time_to_green(tls, signal_index)
    /\ timing_pc' = "returned"
    /\ UNCHANGED <<stop_vars, tls, signal_index, ttr_ret, gpd_ret, speed_vars, monitor_vars, direction_vars>>

CallTimeToRed ==
    /\ timing_pc = "idle"
    /\ ttr_ret' = calculate_time_to_red(tls, signal_index)
    /\ timing_pc' = "red_returned"
    /\ UNCHANGED <<stop_vars, tls, signal_index, ttg_ret, gpd_ret, speed_vars, monitor_vars, direction_vars>>

CallGreenPhaseDuration ==
    /\ timing_pc = "idle"
    /\ gpd_ret' = get_green_phase_duration(tls, signal_index)
    /\ timing_pc' = "duration_returned"
    /\ UNCHANGED <<stop_vars, tls, signal_index, ttg_ret, ttr_ret, speed_vars, monitor_vars, direction_vars>>

(***************************************************************************)
(* The simulated world of specification Spec                               *)
(*                                                                         *)
(* Vehicle ids are held as the sequence of their '_'-separated tokens:     *)
(* "7" is <<"7">>, "av_0" is <<"av", "0">>, "dyn_2000" is <<"dyn", "2000">>.*)
(* Edge ids and junction ids are strings.                                  *)
(***************************************************************************)
MaxTime == 4

MaxDyn == 1

StepLength == 10

AUTONOMOUS_CAR_TYPE == "autonomous_car"

GASOLINE_CAR_TYPE == "gasoline_car"

MAX_VEHICLES_PER_STEP == 5

STOP_GENERATION_BEFORE_END == 60

DEFAULT_END_TIME == 1000

ControlPeriod == 30

\* AVSignalConfig.TARGET_ROAD_EDGES, two of its 24 links
TARGET_ROAD_EDGES == {"1", "-2"}

\* a link of the network that road_to_signal_map (lines 58-83) has no entry for
UnmappedEdge == "13"

\* the edges a vehicle can be on: the tracked links, a junction-internal edge
\* and the link without a signal
Edges == TARGET_ROAD_EDGES \cup {":J1_0", UnmappedEdge}

\* vehicles of the route file: generate_mixed_traffic.py names them "<i>",
\* simple_mixed_traffic.py names its autonomous cars "av_<i>"
RouteVehicleIds == {<<"7">>, <<"av", "0">>}

\* int(text): [ok, n], ok = FALSE for ValueError
IntOf(text) ==
    CASE text = "1"  -> [ok |-> TRUE, n |-> 1]
      [] text = "-2" -> [ok |-> TRUE, n |-> -2]
      [] text = "11" -> [ok |-> TRUE, n |-> 11]
      [] text = "12" -> [ok |-> TRUE, n |-> 12]
      [] text = "13" -> [ok |-> TRUE, n |-> 13]
      [] OTHER       -> [ok |-> FALSE, n |-> 0]

\* traci.trafficlight.getControlledLanes: lane ids as '_'-separated tokens
ControlledLanes(junction_id) ==
    CASE junction_id = "J1"         -> <<<<"170841497#1", "0">>, <<"1", "0">>, <<"1", "1">>>>
      [] junction_id = "8154759359" -> <<<<"12", "0">>, <<"11", "0">>, <<"-2", "0">>>>
      [] OTHER                      -> <<>>

\* traci.lane.getLength of the lane of an edge: 100 m and 2000 m
LaneLength(edge) == IF edge = "1" THEN 1000 ELSE 20000

\* the phase program every junction of the model runs
Program ==
    << [state |-> <<"G", "G", "r", "r">>, duration |-> 300],
       [state |-> <<"y", "y", "r", "r">>, duration |-> 30],
       [state |-> <<"r", "r", "G", "G">>, duration |-> 300],
       [state |-> <<"r", "r", "y", "y">>, duration |-> 30] >>

\* the junction [phase, next] one simulation step later
TlsAfterStep(snapshot) ==
    IF snapshot.next > StepLength
    THEN [phase |-> snapshot.phase, next |-> snapshot.next - StepLength]
    ELSE LET following == (snapshot.phase + 1) % Len(Program)
         IN  [phase |-> following, next |-> Program[following + 1].duration]

JunctionOf(snapshot) ==
    [kind |-> "ok", state |-> Program[snapshot.phase + 1].state, phase |-> snapshot.phase,
     next |-> snapshot.next, phases |-> Program]

\* speed of a vehicle no advisory was written to: 10 m/s
DefaultSpeed == <<10, 1>>

\* traci.vehicle.getIDList(): the vehicles that are on an edge
GetIDList == {v \in DOMAIN sim_vehicles : sim_vehicles[v] \in Edges}

\* traci.vehicle.getSpeed, m/s: the speed last written with setSpeed
RECURSIVE LastWrite(_, _, _)
LastWrite(writes, vehicle_id, k) ==
    IF k = 0 THEN DefaultSpeed
    ELSE IF writes[k].vehicle_id = vehicle_id THEN writes[k].speed
    ELSE LastWrite(writes, vehicle_id, k - 1)

GetSpeed(writes, vehicle_id) == LastWrite(writes, vehicle_id, Len(writes))

(***************************************************************************)
(* AVSignalPredictor                                                       *)
(***************************************************************************)
\* lines 55-91: road_to_signal_map.get(str(current_edge_id)), "None" for no entry
get_signal_id_for_road(current_edge_id) ==
    CASE current_edge_id = 1  -> "J1"
      [] current_edge_id = -2 -> "8154759359"
      [] OTHER                -> "None"

\* lines 108-118: the first controlled lane on the side of the approach
RECURSIVE FirstLaneIndex(_, _, _)
FirstLaneIndex(lanes, is_positive_direction, i) ==
    IF i >= Len(lanes) THEN -1
    ELSE LET lane_edge_id == IntOf(Head(lanes[i + 1]))
         IN  IF lane_edge_id.ok /\ ( (is_positive_direction /\ lane_edge_id.n > 0)
                                     \/ (~is_positive_direction /\ lane_edge_id.n < 0) )
             THEN i
             ELSE FirstLaneIndex(lanes, is_positive_direction, i + 1)

\* what traci.trafficlight.getControlledLanes answers: a list of lanes, or
\* TraCIException (ok = FALSE)
Lanes(lanes) == [ok |-> TRUE, lanes |-> lanes]

TraCIException == [ok |-> FALSE, lanes |-> <<>>]

\* lines 93-128 on a cache that is never read and always written
DirectionIndex_nocache(cache, answer, junction_id, edge_id) ==
    LET cache_key == <<junction_id, edge_id>>
        i == FirstLaneIndex(answer.lanes, edge_id > 0, 0)
        signal_idx == IF i >= 0 THEN i % 4 ELSE IF edge_id > 0 THEN 0 ELSE 2
    IN  IF ~answer.ok
        THEN [index |-> IF edge_id > 0 THEN 0 ELSE 2, cache |-> cache, queried |-> TRUE]
        ELSE [index |-> signal_idx, queried |-> TRUE,
              cache |-> [k \in DOMAIN cache \cup {cache_key} |->
                            IF k = cache_key THEN signal_idx ELSE cache[k]]]

\* lines 93-128: [index, cache, queried]; cache_key f"{junction_id}_{edge_id}"
\* as a pair, answer is what getControlledLanes gives if it is asked
DirectionIndex(cache, answer, junction_id, edge_id) ==
    LET cache_key == <<junction_id, edge_id>>
        i == FirstLaneIndex(answer.lanes, edge_id > 0, 0)
        signal_idx == IF i >= 0 THEN i % 4 ELSE IF edge_id > 0 THEN 0 ELSE 2
    IN  IF cache_key \in DOMAIN cache
        THEN [index |-> cache[cache_key], cache |-> cache, queried |-> FALSE]
        ELSE IF ~answer.ok
        THEN [index |-> IF edge_id > 0 THEN 0 ELSE 2, cache |-> cache, queried |-> TRUE]
        ELSE [index |-> signal_idx, cache |-> cache @@ (cache_key :> signal_idx),
              queried |-> TRUE]

\* lines 93-128 in the network of specification Spec
get_signal_direction_index(cache, junction_id, edge_id) ==
    DirectionIndex(cache, Lanes(ControlledLanes(junction_id)), junction_id, edge_id)

\* lines 405-418 with V written as it is, in km/h
SpeedControl_kmh(vehicle_id, edge, S, R, L, G, V, current_speed_ms, cache, writes) ==
    [S |-> S, R |-> R, L |-> L, G |-> G, V |-> V,
     current_speed |-> Frac(36 * current_speed_ms[1], 10 * current_speed_ms[2]),
     cache |-> cache,
     writes |-> Append(writes, [vehicle_id |-> vehicle_id, edge |-> edge, speed |-> V])]

\* lines 405-418: traci.vehicle.setSpeed(vehicle_id, V / 3.6) and the tuple returned
SpeedControl(vehicle_id, edge, S, R, L, G, V, current_speed_ms, cache, writes) ==
    [S |-> S, R |-> R, L |-> L, G |-> G, V |-> V,
     current_speed |-> Frac(36 * current_speed_ms[1], 10 * current_speed_ms[2]),
     cache |-> cache,
     writes |-> Append(writes, [vehicle_id |-> vehicle_id, edge |-> edge,
                                 speed |-> Frac(10 * V[1], 36 * V[2])])]

\* lines 377-418: S, R, L, G and the speed before the control, then V
TimingFor(vehicle_id, edge, av_penetration, junction, signal_idx, cache, writes) ==
    LET S == calculate_time_to_green(junction, signal_idx).v
        R == calculate_time_to_red(junction, signal_idx).v
        L == LaneLength(edge)
        G == get_green_phase_duration(junction, signal_idx).v
    IN  SpeedControl(vehicle_id, edge, S, R, L, G,
                     calculate_speed(L, av_penetration, S, R, G).v,
                     GetSpeed(writes, vehicle_id), cache, writes)

\* lines 374-375 followed by lines 377-418
TimingWithDirection(vehicle_id, edge, av_penetration, junction, dir, writes) ==
    TimingFor(vehicle_id, edge, av_penetration, junction, dir.index, dir.cache, writes)

\* lines 355-418: what the call returns and what it writes
get_signal_timing_with_speed_control(vehicle_id, edge, current_edge_id, av_penetration, junction, cache, writes) ==
    IF get_signal_id_for_road(current_edge_id) = "None"
    THEN [S |-> 0, R |-> 0, L |-> 0, G |-> 0, V |-> Whole(0),
          current_speed |-> Whole(0), cache |-> cache, writes |-> writes]
    ELSE TimingWithDirection(vehicle_id, edge, av_penetration, junction,
                             get_signal_direction_index(
                                 cache, get_signal_id_for_road(current_edge_id),
                                 current_edge_id),
                             writes)

(***************************************************************************)
(* Bounds, inputs and the call of get_signal_direction_index               *)
(***************************************************************************)
MaxLanes == 5

\* lane ids "<edge>_<n>" as tokens: of a positive link and of a negative link
LaneIds == {<<"1", "0">>, <<"-2", "0">>}

\* a lane of a link whose id is no integer
UnnumberedLane == <<"170841497#1", "0">>

\* lists of up to MaxLanes lanes, the first of which may be of an unnumbered link
LaneLists ==
    UNION {[1..n -> LaneIds] : n \in 0..MaxLanes}
    \cup {<<UnnumberedLane>> \o l : l \in UNION {[1..n -> LaneIds] : n \in 0..(MaxLanes - 1)}}

LaneAnswers == {TraCIException} \cup {Lanes(l) : l \in LaneLists}

DirectionEdges == {1, -2}

\* no call of get_signal_direction_index was made
DirectionIdle ==
    /\ dir_args = [junction_id |-> "J1", edge_id |-> 1, answer |-> TraCIException]
    /\ dir_ret = [index |-> 0, queried |-> FALSE]

CallDirectionIndex ==
    \E edge_id \in DirectionEdges, answer \in LaneAnswers :
        /\ dir_args' = [junction_id |-> "J1", edge_id |-> edge_id, answer |-> answer]
        /\ dir_ret' = [index |-> DirectionIndex(direction_cache, answer, "J1", edge_id).index,
                       queried |-> DirectionIndex(direction_cache, answer, "J1", edge_id).queried]
        /\ direction_cache' = DirectionIndex(direction_cache, answer, "J1", edge_id).cache
        /\ UNCHANGED <<stop_vars, args, add_attempts, sim_time, sim_vehicles, sim_types, sim_tls, sim_speed_writes,
                       vehicle_types, av_vehicles_tracked, av_signal_predictions,
                       target_vehicle_count, target_av_penetration, vehicle_id_counter,
                       last_vehicle_control_time, loop_pc, on_link_since,
                       target_road_edges, saved_predictions, speed_vars, timing_vars>>

(***************************************************************************)
(* IntegratedMonitor                                                       *)
(***************************************************************************)
EmptyDict == [x \in {} |-> 0]

\* line 666: tracking_key = f"{vehicle_id}_{current_edge}", as tokens
TrackingKey(vehicle_id, current_edge) == vehicle_id \o <<current_edge>>

\* line 719: tracking_key.split('_')[0], the id made of the first token alone
KeyVehicle(tracking_key) == <<Head(tracking_key)>>

\* lines 682-695: the record of one advisory (speed_change and current_speed_ms
\* are functions of the fields kept here)
PredictionRecord(vehicle_id, current_edge, signal_id, r) ==
    [time |-> sim_time, vehicle_id |-> vehicle_id, current_edge |-> current_edge,
     signal_id |-> IF signal_id = "None" THEN "unknown" ELSE signal_id,
     time_to_green |-> r.S, time_to_red |-> r.R, lane_length |-> r.L,
     green_duration |-> r.G, optimal_speed |-> r.V, previous_speed |-> r.current_speed]

\* lines 674-698: the advisory r is logged and the pair marked as processed;
\* st = [tracked, predictions, writes, cache]
RecordPrediction(st, tracking_key, vehicle_id, current_edge, signal_id, r) ==
    [tracked |-> st.tracked \cup {tracking_key},
     predictions |-> Append(st.predictions,
                            PredictionRecord(vehicle_id, current_edge, signal_id, r)),
     writes |-> r.writes, cache |-> r.cache]

\* lines 664-710: the vehicle is an AV on current_edge; edge_num is int(current_edge)
ProcessOnEdge(vehicle_id, current_edge, edge_num, st) ==
    IF current_edge \notin target_road_edges THEN st
    ELSE IF TrackingKey(vehicle_id, current_edge) \in st.tracked THEN st
    ELSE IF ~edge_num.ok THEN st
    ELSE RecordPrediction(st, TrackingKey(vehicle_id, current_edge), vehicle_id,
                          current_edge, get_signal_id_for_road(edge_num.n),
                          get_signal_timing_with_speed_control(
                              vehicle_id, current_edge, edge_num.n, target_av_penetration,
                              JunctionOf(sim_tls), st.cache, st.writes))

\* lines 654-714 without the test of lines 656-657 on the registered type
ProcessVehicle_anytype(vehicle_id, st) ==
    ProcessOnEdge(vehicle_id, sim_vehicles[vehicle_id], IntOf(sim_vehicles[vehicle_id]), st)

\* lines 654-714: the body of the loop for one vehicle of getIDList()
ProcessVehicle(vehicle_id, st) ==
    IF vehicle_id \in DOMAIN vehicle_types
       /\ vehicle_types[vehicle_id] = AUTONOMOUS_CAR_TYPE
    THEN ProcessOnEdge(vehicle_id, sim_vehicles[vehicle_id],
                       IntOf(sim_vehicles[vehicle_id]), st)
    ELSE st

\* lines 654-714: for vehicle_id in current_vehicles
RECURSIVE ProcessVehicles(_, _)
ProcessVehicles(todo, st) ==
    IF todo = {} THEN st
    ELSE LET vehicle_id == CHOOSE v \in todo : TRUE
         IN  ProcessVehicles(todo \ {vehicle_id}, ProcessVehicle(vehicle_id, st))

\* lines 716-724: drop the keys whose vehicle is not in current_vehicles
CleanTracked(tracked, current_vehicles) ==
    {tracking_key \in tracked : KeyVehicle(tracking_key) \in current_vehicles}

\* the pairs <<vehicle id, edge>> of the records of a log
LoggedPairs(predictions) ==
    {<<predictions[k].vehicle_id, predictions[k].current_edge>> : k \in DOMAIN predictions}

\* lines 647-724 once the loop has left st = [tracked, predictions, writes, cache]
FinishUpdate(st, current_vehicles) ==
    /\ av_signal_predictions' = st.predictions
    /\ sim_speed_writes' = st.writes
    /\ direction_cache' = st.cache
    /\ av_vehicles_tracked' = CleanTracked(st.tracked, current_vehicles)
    /\ on_link_since' = on_link_since \cup LoggedPairs(st.predictions)

\* lines 647-724, called by main at lines 1344-1348: with the step length and
\* AVSignalConfig.CHECK_INTERVAL both 1.0 s the check is due at every step
UpdateAvSignalMonitoring ==
    /\ loop_pc = "av"
    /\ loop_pc' = IF args.vehicles > 0 THEN "control" ELSE "step"
    /\ FinishUpdate(ProcessVehicles(GetIDList,
                                    [tracked |-> av_vehicles_tracked,
                                     predictions |-> av_signal_predictions,
                                     writes |-> sim_speed_writes,
                                     cache |-> direction_cache]),
                    GetIDList)
    /\ UNCHANGED <<stop_vars, args, add_attempts, sim_time, sim_vehicles, sim_types, sim_tls, vehicle_types,
                   target_vehicle_count, target_av_penetration, vehicle_id_counter,
                   last_vehicle_control_time, speed_vars, timing_vars, direction_vars,
                   target_road_edges, saved_predictions>>

\* lines 545-548, called by main (lines 1317-1319) before the loop when
\* --vehicles > 0; av_penetration is the command line percentage
SetVehicleControlParams ==
    /\ loop_pc = "start"
    /\ args.vehicles > 0
    /\ loop_pc' = "step"
    /\ target_vehicle_count' = args.vehicles
    /\ target_av_penetration' = IF args.av_penetration > 1
                                THEN (args.av_penetration * 1000) \div 100
                                ELSE args.av_penetration * 1000
    /\ UNCHANGED <<stop_vars, args, add_attempts, sim_time, sim_vehicles, sim_types, sim_tls, sim_speed_writes,
                   direction_cache, vehicle_types, av_vehicles_tracked,
                   av_signal_predictions, vehicle_id_counter, last_vehicle_control_time,
                   on_link_since, speed_vars, timing_vars, direction_vars,
                   target_road_edges, saved_predictions>>

\* lines 771-786: register the type of every vehicle seen for the first time
\* (the CO2 sums of lines 787-835 are read by no operation of this model)
UpdateCo2Monitoring ==
    /\ loop_pc = "co2"
    /\ loop_pc' = "av"
    /\ vehicle_types' = [v \in DOMAIN vehicle_types \cup GetIDList |->
                            IF v \in DOMAIN vehicle_types THEN vehicle_types[v]
                            ELSE sim_types[v]]
    /\ UNCHANGED <<stop_vars, args, add_attempts, sim_time, sim_vehicles, sim_types, sim_tls, sim_speed_writes,
                   direction_cache, av_vehicles_tracked, av_signal_predictions,
                   target_vehicle_count, target_av_penetration, vehicle_id_counter,
                   last_vehicle_control_time, on_link_since,
                   speed_vars, timing_vars, direction_vars,
                   target_road_edges, saved_predictions>>

\* line 638: veh_id = f"dyn_{self.vehicle_id_counter}"
DynId(n) == <<"dyn", ToString(n)>>

\* lines 636-642 with lines 575-611: success_count additions succeed, types[i] is
\* the type drawn for the i-th of them; a vehicle added waits for its insertion
AddVehicles(success_count, types) ==
    LET new_ids == {DynId(vehicle_id_counter + i) : i \in 0..(success_count - 1)}
        TypeOf(v) == types[1 + (CHOOSE i \in 0..(success_count - 1) :
                                    v = DynId(vehicle_id_counter + i))]
    IN  /\ vehicle_id_counter' = vehicle_id_counter + success_count
        /\ sim_vehicles' = [v \in DOMAIN sim_vehicles \cup new_ids |->
                               IF v \in new_ids THEN "pending" ELSE sim_vehicles[v]]
        /\ sim_types' = [v \in DOMAIN sim_types \cup new_ids |->
                            IF v \in new_ids THEN TypeOf(v) ELSE sim_types[v]]
        /\ vehicle_types' = [v \in DOMAIN vehicle_types \cup new_ids |->
                                IF v \in new_ids THEN TypeOf(v) ELSE vehicle_types[v]]

Min(a, b) == IF a <= b THEN a ELSE b

\* lines 632-633 without the limit of MAX_VEHICLES_PER_STEP
Shortage_nocap(current_count) ==
    IF current_count < target_vehicle_count
    THEN target_vehicle_count - current_count
    ELSE 0

\* lines 632-633: how many additions the loop of line 636 attempts
Shortage(current_count) ==
    IF current_count < target_vehicle_count
    THEN Min(target_vehicle_count - current_count, MAX_VEHICLES_PER_STEP)
    ELSE 0

\* lines 613-645, called with end_time = SimulationConfig.DEFAULT_END_TIME;
\* add_vehicle is called Shortage times and succeeds success_count times (the
\* simulator accepts at most MaxDyn vehicles over a run)
UpdateVehicleControl ==
    /\ loop_pc = "control"
    /\ loop_pc' = "step"
    /\ IF \/ target_vehicle_count = 0
          \/ sim_time >= (DEFAULT_END_TIME - STOP_GENERATION_BEFORE_END) * 10
          \/ sim_time - last_vehicle_control_time < ControlPeriod
       THEN /\ add_attempts' = 0
            /\ UNCHANGED <<last_vehicle_control_time, vehicle_id_counter, sim_vehicles,
                           sim_types, vehicle_types>>
       ELSE /\ last_vehicle_control_time' = sim_time
            /\ add_attempts' = Shortage(Cardinality(GetIDList))
            /\ \E success_count \in 0..Min(Shortage(Cardinality(GetIDList)),
                                           VehicleIdStart + MaxDyn - vehicle_id_counter) :
                  \E types \in [1..success_count ->
                                  {AUTONOMOUS_CAR_TYPE, GASOLINE_CAR_TYPE}] :
                     /\ \A i \in 1..success_count :
                           /\ types[i] = AUTONOMOUS_CAR_TYPE => target_av_penetration > 0
                           /\ types[i] = GASOLINE_CAR_TYPE => target_av_penetration < 1000
                     /\ AddVehicles(success_count, types)
    /\ UNCHANGED <<stop_vars, args, sim_time, sim_tls, sim_speed_writes, direction_cache,
                   av_vehicles_tracked, av_signal_predictions, target_vehicle_count,
                   target_av_penetration, on_link_since,
                   speed_vars, timing_vars, direction_vars,
                   target_road_edges, saved_predictions>>

\* where a vehicle can be after one simulation step: it is inserted on link 1,
\* crosses the junction to link -2 or back to link 1, and from link -2 it
\* arrives or goes on to the link without a signal
Moves(from, to) ==
    CASE from = "pending" -> to \in {"pending", "1"}
      [] from = "1"       -> to \in {"1", ":J1_0"}
      [] from = ":J1_0"   -> to \in {"1", "-2"}
      [] from = "-2"      -> to \in {"-2", UnmappedEdge, "arrived"}
      [] from = UnmappedEdge -> to \in {UnmappedEdge, "arrived"}
      [] OTHER            -> to = "arrived"

\* traci.simulation.getMinExpectedNumber(): the vehicles in the network and
\* those waiting for their insertion
MinExpectedNumber == Cardinality({v \in DOMAIN sim_vehicles : sim_vehicles[v] # "arrived"})

\* lines 1330-1333: while getMinExpectedNumber() > 0, traci.simulationStep():
\* time advances by one step, vehicles are inserted, move on or arrive, the
\* junction moves on in its program
SimulationStep ==
    /\ loop_pc = "step" \/ (loop_pc = "start" /\ args.vehicles = 0)
    /\ MinExpectedNumber > 0
    /\ loop_pc' = "co2"
    /\ sim_time < MaxTime * StepLength
    /\ sim_time' = sim_time + StepLength
    /\ \E locs \in [DOMAIN sim_vehicles -> {"pending", "arrived"} \cup Edges] :
          /\ \A v \in DOMAIN sim_vehicles : Moves(sim_vehicles[v], locs[v])
          /\ sim_vehicles' = locs
          /\ on_link_since' = {p \in on_link_since : locs[p[1]] = p[2]}
    /\ sim_tls' = TlsAfterStep(sim_tls)
    /\ UNCHANGED <<stop_vars, args, add_attempts, sim_types, sim_speed_writes, direction_cache, vehicle_types,
                   av_vehicles_tracked, av_signal_predictions, target_vehicle_count,
                   target_av_penetration, vehicle_id_counter, last_vehicle_control_time,
                   speed_vars, timing_vars, direction_vars,
                   target_road_edges, saved_predictions>>

\* lines 1330 and 1360-1361: the loop ends when no vehicle is left or expected,
\* and save_results writes the records of the run (lines 946-972, 1144-1253)
SaveResults ==
    /\ loop_pc = "step" \/ (loop_pc = "start" /\ args.vehicles = 0)
    /\ MinExpectedNumber = 0
    /\ loop_pc' = "done"
    /\ saved_predictions' = [written |-> TRUE, records |-> av_signal_predictions]
    /\ UNCHANGED <<stop_vars, args, add_attempts, sim_time, sim_vehicles, sim_types, sim_tls, sim_speed_writes,
                   direction_cache, vehicle_types, av_vehicles_tracked,
                   av_signal_predictions, target_vehicle_count, target_av_penetration,
                   vehicle_id_counter, last_vehicle_control_time, on_link_since,
                   target_road_edges, speed_vars, timing_vars, direction_vars>>

\* lines 1263-1271, installed for SIGINT at line 1311: traci.close() and
\* sys.exit(0); SystemExit passes the except clause of line 1363 and the
\* finally clause of lines 1368-1372 closes the connection again
SignalHandler ==
    /\ loop_pc \in {"start", "step", "co2", "av", "control"}
    /\ loop_pc' = "interrupted"
    /\ UNCHANGED <<stop_vars, args, add_attempts, sim_time, sim_vehicles, sim_types, sim_tls, sim_speed_writes,
                   direction_cache, vehicle_types, av_vehicles_tracked,
                   av_signal_predictions, target_vehicle_count, target_av_penetration,
                   vehicle_id_counter, last_vehicle_control_time, on_link_since,
                   target_road_edges, saved_predictions,
                   speed_vars, timing_vars, direction_vars>>

\* lines 470-533 and 50-53: the monitor and its predictor after construction,
\* the simulation loaded with the route file's vehicles waiting to depart
MonitorInit(types, edges, arguments) ==
    /\ args \in arguments
    /\ add_attempts = 0
    /\ sim_time = 0
    /\ sim_vehicles = [v \in RouteVehicleIds |-> "pending"]
    /\ sim_types = types
    /\ sim_tls = [phase |-> 0, next |-> 20]
    /\ sim_speed_writes = <<>>
    /\ direction_cache = EmptyDict
    /\ vehicle_types = EmptyDict
    /\ av_vehicles_tracked = {}
    /\ av_signal_predictions = <<>>
    /\ target_vehicle_count = 0
    /\ target_av_penetration = DefaultPenetration
    /\ vehicle_id_counter = VehicleIdStart
    /\ last_vehicle_control_time = 0
    /\ loop_pc = "start"
    /\ on_link_since = {}
    /\ target_road_edges = edges
    /\ saved_predictions = [written |-> FALSE, records |-> <<>>]

\* lines 1282-1285: --vehicles defaults to 0 and --av-penetration to 50.0
DefaultArgs == [vehicles |-> 0, av_penetration |-> 50]

\* the command lines of the runs of Spec: dynamic vehicle control off, or on
\* with a target above the number of vehicles of the route file
RunArgs == {DefaultArgs,
            [vehicles |-> Cardinality(RouteVehicleIds) + MaxDyn, av_penetration |-> 50]}

\* the command lines of SpecParams: every whole percentage, control off or on
ParamArgs == [vehicles : {0, Cardinality(RouteVehicleIds) + MaxDyn}, av_penetration : 0..100]

MonitorIdle ==
    MonitorInit([v \in RouteVehicleIds |-> AUTONOMOUS_CAR_TYPE], TARGET_ROAD_EDGES, {DefaultArgs})

(***************************************************************************)
(* Stop monitoring: IntegratedMonitor.update_stop_monitoring (lines        *)
(* 837-913) and its call in main (lines 1330-1341).  check_vehicle_stops   *)
(* of src/stop_counter.py (lines 149-232) and of src/fixed_stop_counter.py *)
(* (lines 110-182) are the same code with the constants of their modules.  *)
(***************************************************************************)
\* StopMonitoringConfig.STOP_SPEED_THRESHOLD, 0.1 m/s in tenths of m/s
STOP_SPEED_THRESHOLD == 1

\* StopMonitoringConfig.MIN_STOP_DURATION, 1.0 s in tenths of a second
MIN_STOP_DURATION == 10

\* StopMonitoringConfig.CHECK_INTERVAL, 1.0 s in tenths of a second
CHECK_INTERVAL == 10

\* the simulated time of a run of SpecStops, in seconds
MaxStopTime == 5

\* the step length of the simulation configuration: 0.5 s or 1.0 s
StopStepLengths == {5, 10}

\* StopMonitoringConfig.TARGET_EDGES: "1" .. "12" and "-1" .. "-12"
STOP_TARGET_EDGES == {ToString(n) : n \in 1..12} \cup {"-" \o ToString(n) : n \in 1..12}

\* lines 732-735: the target edges that exist in the network
valid_stop_edges == {edge_id \in Edges : edge_id \in STOP_TARGET_EDGES}

\* what getRoadID and getSpeed give for a vehicle of getIDList(): at the
\* threshold or above it on a monitored edge, or slow on the junction
StopObservations ==
    {[edge |-> "1", speed |-> 1], [edge |-> "1", speed |-> 2],
     [edge |-> "-2", speed |-> 0], [edge |-> ":J1_0", speed |-> 0]}

\* a vehicle that is not in getIDList(): not departed yet, or arrived
Absent == [edge |-> "absent", speed |-> 0]

StopWorlds == [RouteVehicleIds -> {Absent} \cup StopObservations]

\* d[k] = v on a dict
DictWith(d, k, v) == [x \in DOMAIN d \cup {k} |-> IF x = k THEN v ELSE d[x]]

\* del d[k]
DictWithout(d, k) == [x \in DOMAIN d \ {k} |-> d[x]]

\* line 881: self.stop_counts[edge_id] += 1 on a defaultdict(int)
Increment(counts, edge_id) ==
    DictWith(counts, edge_id, (IF edge_id \in DOMAIN counts THEN counts[edge_id] ELSE 0) + 1)

\* lines 880-892: the stop is counted; st = [states, counts, events]
CountStop(vehicle_id, edge_id, current_time, st) ==
    [states |-> [st.states EXCEPT ![vehicle_id].counted = TRUE],
     counts |-> Increment(st.counts, edge_id),
     events |-> Append(st.events,
                       [time |-> current_time, vehicle_id |-> vehicle_id, edge_id |-> edge_id,
                        duration |-> current_time - st.states[vehicle_id].start_time])]

\* lines 899-905: del self.vehicle_stop_states[vehicle_id] when it is there
ForgetStop(vehicle_id, st) ==
    IF vehicle_id \in DOMAIN st.states
    THEN [st EXCEPT !.states = DictWithout(st.states, vehicle_id)]
    ELSE st

\* lines 857-905 counting at every check of a stop, counted already or not
CheckVehicle_recount(vehicle_id, obs, current_time, st) ==
    IF obs.edge \in valid_stop_edges
    THEN IF obs.speed <= STOP_SPEED_THRESHOLD
         THEN IF vehicle_id \notin DOMAIN st.states
              THEN [st EXCEPT !.states =
                       DictWith(st.states, vehicle_id,
                                [start_time |-> current_time, edge |-> obs.edge, counted |-> FALSE])]
              ELSE IF current_time - st.states[vehicle_id].start_time >= MIN_STOP_DURATION
                   THEN CountStop(vehicle_id, obs.edge, current_time, st)
              ELSE st
         ELSE ForgetStop(vehicle_id, st)
    ELSE ForgetStop(vehicle_id, st)

\* lines 857-905 keeping the stop state of a vehicle that moves again
CheckVehicle_keep(vehicle_id, obs, current_time, st) ==
    IF obs.edge \in valid_stop_edges
    THEN IF obs.speed <= STOP_SPEED_THRESHOLD
         THEN IF vehicle_id \notin DOMAIN st.states
              THEN [st EXCEPT !.states =
                       DictWith(st.states, vehicle_id,
                                [start_time |-> current_time, edge |-> obs.edge, counted |-> FALSE])]
              ELSE IF /\ ~st.states[vehicle_id].counted
                      /\ current_time - st.states[vehicle_id].start_time >= MIN_STOP_DURATION
                   THEN CountStop(vehicle_id, obs.edge, current_time, st)
              ELSE st
         ELSE st
    ELSE ForgetStop(vehicle_id, st)

\* lines 857-905: the body of the loop for one vehicle of getIDList()
CheckVehicle(vehicle_id, obs, current_time, st) ==
    IF obs.edge \in valid_stop_edges
    THEN IF obs.speed <= STOP_SPEED_THRESHOLD
         THEN IF vehicle_id \notin DOMAIN st.states
              THEN [st EXCEPT !.states =
                       DictWith(st.states, vehicle_id,
                                [start_time |-> current_time, edge |-> obs.edge, counted |-> FALSE])]
              ELSE IF /\ ~st.states[vehicle_id].counted
                      /\ current_time - st.states[vehicle_id].start_time >= MIN_STOP_DURATION
                   THEN CountStop(vehicle_id, obs.edge, current_time, st)
              ELSE st
         ELSE ForgetStop(vehicle_id, st)
    ELSE ForgetStop(vehicle_id, st)

\* lines 856-911: for vehicle_id in current_vehicles
RECURSIVE CheckVehicles(_, _, _, _)
CheckVehicles(todo, world, current_time, st) ==
    IF todo = {} THEN st
    ELSE LET vehicle_id == CHOOSE v \in todo : TRUE
         IN  CheckVehicles(todo \ {vehicle_id}, world, current_time,
                           CheckVehicle(vehicle_id, world[vehicle_id], current_time, st))

\* line 839: traci.vehicle.getIDList()
StopIDList(world) == {v \in DOMAIN world : world[v] # Absent}

\* lines 845-852: the states of the vehicles that left the simulation are dropped
ClearRemoved(states, current_vehicles) ==
    [v \in DOMAIN states \cap current_vehicles |-> states[v]]

\* lines 837-913 on st = [states, counts, events]
update_stop_monitoring(world, current_time, st) ==
    CheckVehicles(StopIDList(world), world, current_time,
                  [st EXCEPT !.states = ClearRemoved(st.states, StopIDList(world))])

\* history: the vehicles a check observes stopped on a monitored edge
ObservedStopped(world) ==
    {v \in StopIDList(world) : /\ world[v].edge \in valid_stop_edges
                               /\ world[v].speed <= STOP_SPEED_THRESHOLD}

\* history: the episode of a vehicle observed stopped at a check at current_time:
\* a new one, or the one it was in at the check before; due is the first check
\* of the episode that is MIN_STOP_DURATION or more after its start (-1: none yet)
EpisodeAfter(episodes, v, current_time) ==
    IF v \notin DOMAIN episodes
    THEN [start |-> current_time, checks |-> 1, due |-> -1]
    ELSE [start |-> episodes[v].start,
          checks |-> episodes[v].checks + 1,
          due |-> IF episodes[v].due < 0 /\ current_time - episodes[v].start >= MIN_STOP_DURATION
                  THEN current_time
                  ELSE episodes[v].due]

\* history: the episodes that reach their due check at this check
NewlyDue(episodes, world, current_time) ==
    {v \in ObservedStopped(world) \cap DOMAIN episodes :
        episodes[v].due < 0 /\ current_time - episodes[v].start >= MIN_STOP_DURATION}

\* lines 1332-1334: traci.simulationStep() and getTime(); the vehicles are
\* wherever the simulation has taken them
StopSimulationStep ==
    /\ stop_pc = "step"
    /\ stop_time + stop_step_length <= MaxStopTime * 10
    /\ stop_pc' = "check"
    /\ stop_time' = stop_time + stop_step_length
    /\ stop_world' \in StopWorlds
    /\ UNCHANGED <<stop_step_length, last_check_time, vehicle_stop_states, stop_counts,
                   stop_events, stop_episodes, stop_due_total,
                   speed_vars, timing_vars, direction_vars, monitor_vars>>

\* lines 1339-1341: update_stop_monitoring is called when check_interval has
\* passed since the last check
StopCheck ==
    /\ stop_pc = "check"
    /\ stop_pc' = "step"
    /\ IF stop_time - last_check_time >= CHECK_INTERVAL
       THEN /\ vehicle_stop_states' =
                  update_stop_monitoring(stop_world, stop_time,
                      [states |-> vehicle_stop_states, counts |-> stop_counts,
                       events |-> stop_events]).states
            /\ stop_counts' =
                  update_stop_monitoring(stop_world, stop_time,
                      [states |-> vehicle_stop_states, counts |-> stop_counts,
                       events |-> stop_events]).counts
            /\ stop_events' =
                  update_stop_monitoring(stop_world, stop_time,
                      [states |-> vehicle_stop_states, counts |-> stop_counts,
                       events |-> stop_events]).events
            /\ last_check_time' = stop_time
            /\ stop_episodes' = [v \in ObservedStopped(stop_world) |->
                                    EpisodeAfter(stop_episodes, v, stop_time)]
            /\ stop_due_total' = stop_due_total
                                 + Cardinality(NewlyDue(stop_episodes, stop_world, stop_time))
       ELSE UNCHANGED <<vehicle_stop_states, stop_counts, stop_events, last_check_time,
                        stop_episodes, stop_due_total>>
    /\ UNCHANGED <<stop_step_length, stop_time, stop_world,
                   speed_vars, timing_vars, direction_vars, monitor_vars>>

\* lines 493-503 and 1327-1328: the stop monitor after construction, no
\* vehicle departed yet
StopInit(step_lengths) ==
    /\ stop_pc = "step"
    /\ stop_step_length \in step_lengths
    /\ stop_time = 0
    /\ last_check_time = 0
    /\ stop_world = [v \in RouteVehicleIds |-> Absent]
    /\ vehicle_stop_states = EmptyDict
    /\ stop_counts = EmptyDict
    /\ stop_events = <<>>
    /\ stop_episodes = EmptyDict
    /\ stop_due_total = 0

StopIdle == StopInit({StepLength})

(***************************************************************************)
(* Specifications                                                          *)
(***************************************************************************)
InitSpeed ==
    /\ speed_pc = "idle"
    /\ speed_args \in SpeedArgs
    /\ speed_ret = Return(Whole(0))
    /\ TimingIdle
    /\ DirectionIdle
    /\ StopIdle
    /\ MonitorIdle

NextSpeed == CallCalculateSpeed

SpecSpeed == InitSpeed /\ [][NextSpeed]_vars

InitTiming ==
    /\ timing_pc = "idle"
    /\ \/ tls \in TlsFailures
       \/ tls \in TlsInProgram
       \/ tls \in TlsOtherProgram
    /\ signal_index \in SignalIndexes
    /\ ttg_ret = Walked(0, 0)
    /\ ttr_ret = Walked(0, 0)
    /\ gpd_ret = Walked(0, 0)
    /\ SpeedIdle
    /\ DirectionIdle
    /\ StopIdle
    /\ MonitorIdle

NextTiming == CallTimeToGreen \/ CallTimeToRed \/ CallGreenPhaseDuration

SpecTiming == InitTiming /\ [][NextTiming]_vars

\* SpecDirection: calls of get_signal_direction_index, one after the other,
\* on one predictor; the simulator answers each with any list of lanes
InitDirection ==
    /\ DirectionIdle
    /\ StopIdle
    /\ SpeedIdle
    /\ TimingIdle
    /\ MonitorIdle

NextDirection == CallDirectionIndex

SpecDirection == InitDirection /\ [][NextDirection]_vars

Init ==
    /\ MonitorInit([v \in RouteVehicleIds |-> AUTONOMOUS_CAR_TYPE], TARGET_ROAD_EDGES, RunArgs)
    /\ SpeedIdle
    /\ TimingIdle
    /\ DirectionIdle
    /\ StopIdle

Next ==
    \/ SetVehicleControlParams
    \/ SimulationStep
    \/ UpdateCo2Monitoring
    \/ UpdateAvSignalMonitoring
    \/ UpdateVehicleControl
    \/ SaveResults
    \/ SignalHandler

Spec == Init /\ [][Next]_vars

\* SpecUnmapped: the run of Spec with a configuration whose TARGET_ROAD_EDGES
\* also names the link that has no signal
InitUnmapped ==
    /\ MonitorInit([v \in RouteVehicleIds |-> AUTONOMOUS_CAR_TYPE],
                   TARGET_ROAD_EDGES \cup {UnmappedEdge}, RunArgs)
    /\ SpeedIdle
    /\ TimingIdle
    /\ DirectionIdle
    /\ StopIdle

SpecUnmapped == InitUnmapped /\ [][Next]_vars

\* SpecParams: the start of main for every command line, up to the first
\* simulation step; target_av_penetration is assigned nowhere else
InitParams ==
    /\ MonitorInit([v \in RouteVehicleIds |-> AUTONOMOUS_CAR_TYPE], TARGET_ROAD_EDGES, ParamArgs)
    /\ SpeedIdle
    /\ TimingIdle
    /\ DirectionIdle
    /\ StopIdle

NextParams == SetVehicleControlParams \/ SimulationStep \/ UpdateCo2Monitoring

SpecParams == InitParams /\ [][NextParams]_vars

\* the times of the calls of SpecControl, in tenths of a second: the first
\* steps of a run and the steps around end_time - STOP_GENERATION_BEFORE_END
ControlTimes ==
    {10, 20, 30, 40} \cup {(DEFAULT_END_TIME - STOP_GENERATION_BEFORE_END) * 10 + d : d \in {-10, 0, 10}}

\* the targets of SpecControl: control off, targets met by the vehicles
\* present, and a target more than MAX_VEHICLES_PER_STEP above them
ControlTargets == {0, 1, 3, MAX_VEHICLES_PER_STEP + 3}

\* SpecControl: one call of update_vehicle_control on a monitor in the middle
\* of a run
InitControl ==
    /\ loop_pc = "control"
    /\ args \in [vehicles : ControlTargets, av_penetration : {50}]
    /\ target_vehicle_count = args.vehicles
    /\ target_av_penetration = DefaultPenetration
    /\ add_attempts = 0
    /\ sim_time \in ControlTimes
    /\ last_vehicle_control_time \in {t \in {sim_time - d : d \in {10, 20, 30, 40}} : t >= 0}
    /\ sim_vehicles \in [RouteVehicleIds -> {"pending", "1", "arrived"}]
    /\ sim_types = [v \in RouteVehicleIds |-> AUTONOMOUS_CAR_TYPE]
    /\ vehicle_types = [v \in {w \in RouteVehicleIds : sim_vehicles[w] # "pending"} |->
                           AUTONOMOUS_CAR_TYPE]
    /\ sim_tls = [phase |-> 0, next |-> 20]
    /\ sim_speed_writes = <<>>
    /\ direction_cache = EmptyDict
    /\ av_vehicles_tracked = {}
    /\ av_signal_predictions = <<>>
    /\ vehicle_id_counter = VehicleIdStart
    /\ on_link_since = {}
    /\ target_road_edges = TARGET_ROAD_EDGES
    /\ saved_predictions = [written |-> FALSE, records |-> <<>>]
    /\ SpeedIdle
    /\ TimingIdle
    /\ DirectionIdle
    /\ StopIdle

NextControl == UpdateVehicleControl

SpecControl == InitControl /\ [][NextControl]_vars

\* SpecStops: the loop of main as far as stop monitoring goes, the vehicles
\* stopping and moving in any way
InitStops ==
    /\ StopInit(StopStepLengths)
    /\ SpeedIdle
    /\ TimingIdle
    /\ DirectionIdle
    /\ MonitorIdle

NextStops == StopSimulationStep \/ StopCheck

SpecStops == InitStops /\ [][NextStops]_vars

(***************************************************************************)
(* Claims about calculate_speed, checked under SpecSpeed                   *)
(***************************************************************************)
\* the value (L / t) * 3.6 km/h as a fraction, for t # 0
Kmh(L, t) == Frac(36 * L, 10 * t)

\* S > 0.1, R > 0.1, L > 0.1 and G > 0: the guard of branch 1 does not fire
NoGuard(a) == a.S > 1 /\ a.R > 1 /\ a.L > 1 /\ a.G > 0

\* R <= T with T = G * P
WithinThreshold(a) == 1000 * a.R <= a.G * a.P

\* the call returned v km/h and raised nothing
Returned(v) == speed_pc = "returned" /\ ~speed_ret.raised /\ FracEq(speed_ret.v, v)

\* C1: whenever S <= 0.1 or R <= 0.1 or L <= 0.1 or G <= 0, calculate_speed
\* returns exactly vj = 60 km/h and raises no exception, whatever the other
\* arguments are.
C1_GuardReturnsLegalSpeed ==
    (speed_pc = "returned"
     /\ (speed_args.S <= 1 \/ speed_args.R <= 1 \/ speed_args.L <= 1 \/ speed_args.G <= 0))
    => (~speed_ret.raised /\ speed_ret.v = Whole(vj))

\* a call in which S = 0 alone makes the guard fire came back with vj
C1_Witness ==
    /\ speed_pc = "returned"
    /\ speed_args.S = 0 /\ speed_args.R > 1 /\ speed_args.L > 1 /\ speed_args.G > 0
    /\ 1000 * speed_args.R > speed_args.G * speed_args.P
    /\ speed_ret = Return(Whole(vj))

\* C2: for all inputs the value returned is strictly positive and at most
\* 100 km/h, and no exception is raised.
C2_ResultInRange ==
    speed_pc = "returned"
    => (/\ ~speed_ret.raised
        /\ FracLt(Whole(0), speed_ret.v)
        /\ FracLeq(speed_ret.v, Whole(MaxSaneSpeed)))

\* a call whose branch-6 value exceeds 100 km/h came back with vj instead
C2_Witness ==
    /\ NoGuard(speed_args) /\ ~WithinThreshold(speed_args)
    /\ FracLt(Whole(vj), Kmh(speed_args.L, speed_args.S))
    /\ FracLt(Whole(vj), Kmh(speed_args.L, speed_args.R))
    /\ FracLt(Whole(MaxSaneSpeed), Kmh(speed_args.L, speed_args.S + 10 * C))
    /\ Returned(Whole(vj))

\* C3: branch 3 precedence: when the guard does not fire and R <= T = G * P,
\* calculate_speed returns exactly vj = 60 regardless of L and S.
C3_Branch3Precedence ==
    (speed_pc = "returned" /\ NoGuard(speed_args) /\ WithinThreshold(speed_args))
    => (~speed_ret.raised /\ speed_ret.v = Whole(vj))

\* the example L = 500, P = 0.5, G = 20, S = 50, R = 5, where (L/S)*3.6 = 36, gave 60
C3_Witness ==
    /\ speed_args = [L |-> 5000, P |-> 500, S |-> 500, R |-> 50, G |-> 200]
    /\ FracLeq(Kmh(speed_args.L, speed_args.S), Whole(vj))
    /\ Returned(Whole(vj))

\* C4: branch 4: when the guard does not fire, R > G * P and (L/S)*3.6 <= 60,
\* calculate_speed returns exactly (L/S)*3.6 km/h.
C4_Branch4GreenOnset ==
    (speed_pc = "returned" /\ NoGuard(speed_args) /\ ~WithinThreshold(speed_args)
     /\ FracLeq(Kmh(speed_args.L, speed_args.S), Whole(vj)))
    => Returned(Kmh(speed_args.L, speed_args.S))

\* the example L = 100, S = 10 with R > T gave 36 km/h
C4_Witness ==
    /\ speed_args.L = 1000 /\ speed_args.S = 100
    /\ NoGuard(speed_args) /\ ~WithinThreshold(speed_args)
    /\ Returned(Whole(36))

\* C5: branch 6: when the guard does not fire, R > G * P, (L/S)*3.6 > 60 and
\* (L/R)*3.6 > 60, calculate_speed returns (L/(S+C))*3.6 with C = 90 when that
\* value is at most 100, and vj = 60 when it exceeds 100.
C5_Branch6NextCycle ==
    (speed_pc = "returned" /\ NoGuard(speed_args) /\ ~WithinThreshold(speed_args)
     /\ FracLt(Whole(vj), Kmh(speed_args.L, speed_args.S))
     /\ FracLt(Whole(vj), Kmh(speed_args.L, speed_args.R)))
    => IF FracLeq(Kmh(speed_args.L, speed_args.S + 10 * C), Whole(MaxSaneSpeed))
       THEN Returned(Kmh(speed_args.L, speed_args.S + 10 * C))
       ELSE Returned(Whole(vj))

\* a call of branch 6 came back with a next-cycle speed between 60 and 100 km/h
C5_Witness ==
    /\ NoGuard(speed_args) /\ ~WithinThreshold(speed_args)
    /\ FracLt(Whole(vj), Kmh(speed_args.L, speed_args.S))
    /\ FracLt(Whole(vj), Kmh(speed_args.L, speed_args.R))
    /\ Returned(Kmh(speed_args.L, speed_args.S + 10 * C))
    /\ FracLt(Whole(vj), speed_ret.v)
    /\ FracLeq(speed_ret.v, Whole(MaxSaneSpeed))

\* C22: branch 5: when the guard does not fire, R > G * P, (L/S)*3.6 > 60 and
\* (L/R)*3.6 <= 60, calculate_speed returns exactly vj = 60 km/h.
C22_Branch5LegalSpeed ==
    (speed_pc = "returned" /\ NoGuard(speed_args) /\ ~WithinThreshold(speed_args)
     /\ FracLt(Whole(vj), Kmh(speed_args.L, speed_args.S))
     /\ FracLeq(Kmh(speed_args.L, speed_args.R), Whole(vj)))
    => Returned(Whole(vj))

\* a call of branch 5 came back: 100 m, green in 5 s (72 km/h), red in 10 s (36 km/h)
C22_Witness ==
    /\ speed_args.L = 1000 /\ speed_args.S = 50 /\ speed_args.R = 100
    /\ NoGuard(speed_args) /\ ~WithinThreshold(speed_args)
    /\ FracLt(Kmh(speed_args.L, speed_args.R), Whole(vj))
    /\ Returned(Whole(vj))

\* C29: for all inputs, branch 6 included, the speed calculate_speed returns
\* never exceeds the legal speed vj = 60 km/h.
C29_NeverAboveLegalSpeed ==
    (speed_pc = "returned" /\ ~speed_ret.raised) => FracLeq(speed_ret.v, Whole(vj))

\* the inputs of C6: L = 2000, S = 5, R = 5, G = 20, P = 0.5
C6_Inputs == [L |-> 20000, P |-> 500, S |-> 50, R |-> 50, G |-> 200]

\* C6 as claimed: for L = 2000, S = 5, R = 5, G = 20, P = 0.5 calculate_speed
\* takes the branch-6 fallback and returns (2000/95)*3.6, about 75.8 km/h.
C6_Original ==
    (speed_pc = "returned" /\ speed_args = C6_Inputs)
    => Returned(Kmh(20000, 50 + 10 * C))

\* C6 amended: for L = 2000, S = 5, R = 5, G = 20, P = 0.5 the threshold is
\* T = 10 and R = 5 <= T, so branch 3 applies and calculate_speed returns
\* vj = 60; the branch-6 value (2000/95)*3.6 is what the same L, S, G, P give
\* with R = 20 > T.
C6_Amended ==
    /\ (speed_pc = "returned" /\ speed_args = C6_Inputs)
       => (~speed_ret.raised /\ speed_ret.v = Whole(vj))
    /\ (speed_pc = "returned" /\ speed_args = [C6_Inputs EXCEPT !.R = 200])
       => Returned(Kmh(20000, 50 + 10 * C))

\* the call on the inputs of C6 came back with 60 km/h, R being within T
C6_Witness ==
    /\ speed_args = C6_Inputs
    /\ WithinThreshold(speed_args)
    /\ Returned(Whole(vj))

(***************************************************************************)
(* Claims about calculate_time_to_green, checked under SpecTiming          *)
(***************************************************************************)
\* the junction answers with a program and the direction exists in the state
\* string, the program is not empty and getPhase is an index of it
ValidSnapshot(j, idx) ==
    /\ j.kind = "ok"
    /\ idx < Len(j.state)
    /\ Len(j.phases) >= 1
    /\ j.phase < Len(j.phases)

\* the phase k places after the current one, in cyclic order
PhaseAfter(j, k) == j.phases[((j.phase + k) % Len(j.phases)) + 1]

\* the durations of the first k phases after the current one
RECURSIVE DurationsAfter(_, _)
DurationsAfter(j, k) ==
    IF k = 0 THEN 0 ELSE DurationsAfter(j, k - 1) + PhaseAfter(j, k).duration

\* the phases after the current one that are green for the direction, within
\* one cycle (the last of them is the current phase one cycle later)
GreenAhead(j, idx) ==
    {k \in 1..Len(j.phases) : idx < Len(PhaseAfter(j, k).state)
                              /\ Upper(PhaseAfter(j, k).state[idx + 1]) = "G"}

NextGreenAhead(j, idx) ==
    CHOOSE k \in GreenAhead(j, idx) : \A m \in GreenAhead(j, idx) : k <= m

CurrentlyGreen(j, idx) == Upper(j.state[idx + 1]) = "G"

\* C9: called for a direction that is green now, with time to the next switch
\* t, calculate_time_to_green returns the cumulative duration up to the next
\* occurrence of green for the direction in the cyclic program: t plus the
\* durations of the phases between the current one and that occurrence; in
\* particular t plus the durations of all the other phases when the current
\* phase is the only green one.
C9_NextOccurrenceOfGreen ==
    (timing_pc = "returned" /\ ValidSnapshot(tls, signal_index)
     /\ CurrentlyGreen(tls, signal_index))
    => (/\ ~ttg_ret.diverged
        /\ ttg_ret.v = tls.next + DurationsAfter(tls, NextGreenAhead(tls, signal_index) - 1))

\* no phase of the program is green for the direction
NoGreenPhase(j, idx) ==
    \A k \in DOMAIN j.phases :
        ~(idx < Len(j.phases[k].state) /\ Upper(j.phases[k].state[idx + 1]) = "G")

\* the query cannot be answered: the junction is unknown, it has no program,
\* the program has no phase or the direction is not in the state string
QueryFails(j, idx) ==
    \/ j.kind # "ok"
    \/ idx >= Len(j.state)
    \/ Len(j.phases) = 0

\* C10 as claimed: calculate_time_to_green returns 0 only when no future green
\* phase for the direction is found within one cycle, and that case is the one
\* signalled by the return value 0 (stated for a positive time to the next
\* switch, where 0 is never the time of a green that starts at once).
C10_Original ==
    (timing_pc = "returned" /\ ~ttg_ret.diverged /\ tls.next > 0)
    => ( ttg_ret.v = 0 <=> (QueryFails(tls, signal_index) \/ NoGreenPhase(tls, signal_index)) )

\* C10 amended: calculate_time_to_green returns 0 only when the query fails
\* (unknown junction, no program, no phase, direction past the state string)
\* or the time to the next switch is itself 0; a program without any green
\* phase for the direction is not signalled by 0: the function then returns the
\* time to the next switch plus the durations of all the phases.
C10_Amended ==
    /\ (timing_pc = "returned" /\ ~ttg_ret.diverged /\ ttg_ret.v = 0)
       => (QueryFails(tls, signal_index) \/ tls.next = 0)
    /\ (timing_pc = "returned" /\ ValidSnapshot(tls, signal_index)
        /\ NoGreenPhase(tls, signal_index))
       => (/\ ~ttg_ret.diverged
           /\ ttg_ret.v = tls.next + DurationsAfter(tls, Len(tls.phases)))

\* a program without green for the direction gave a time that is not 0
C10_Witness ==
    /\ timing_pc = "returned"
    /\ ValidSnapshot(tls, signal_index)
    /\ NoGreenPhase(tls, signal_index)
    /\ Len(tls.phases) >= 2
    /\ ttg_ret.v = tls.next + DurationsAfter(tls, Len(tls.phases))
    /\ ttg_ret.v > tls.next

(***************************************************************************)
(* Claims about calculate_time_to_red and the failure cases of the timing  *)
(* extractor, checked under SpecTiming                                     *)
(***************************************************************************)
CurrentlyRed(j, idx) == Upper(j.state[idx + 1]) = "R"

\* the duration of the phase k places after the current one when the
\* direction is yellow in it, 0 otherwise
YellowAfter(j, idx, k) ==
    IF idx < Len(PhaseAfter(j, k).state) /\ Upper(PhaseAfter(j, k).state[idx + 1]) = "Y"
    THEN PhaseAfter(j, k).duration
    ELSE 0

\* C11: called for a direction that is red now, calculate_time_to_red returns
\* the time until the upcoming green phase ends: the remaining time of the
\* current phase, plus the durations of the following phases up to and
\* including the next phase that is green for the direction, plus the duration
\* of the phase right after that green one if the direction is yellow in it.
C11_RedSpansNextGreen ==
    (timing_pc = "red_returned" /\ ValidSnapshot(tls, signal_index)
     /\ CurrentlyRed(tls, signal_index) /\ GreenAhead(tls, signal_index) # {})
    => (/\ ~ttr_ret.diverged
        /\ ttr_ret.v = tls.next
                        + DurationsAfter(tls, NextGreenAhead(tls, signal_index))
                        + YellowAfter(tls, signal_index, NextGreenAhead(tls, signal_index) + 1))

\* a red direction whose next green phase is followed by a yellow one: the
\* value returned is beyond the end of the green phase
C11_Witness ==
    /\ timing_pc = "red_returned"
    /\ ValidSnapshot(tls, signal_index)
    /\ CurrentlyRed(tls, signal_index)
    /\ GreenAhead(tls, signal_index) # {}
    /\ YellowAfter(tls, signal_index, NextGreenAhead(tls, signal_index) + 1) > 0
    /\ ttr_ret.v > tls.next + DurationsAfter(tls, NextGreenAhead(tls, signal_index))

\* the signal does not exist, has no program, or its phase list is empty
NoSignalProgram(j) == j.kind # "ok" \/ Len(j.phases) = 0

\* the function that was called and what it returned
LastReturn ==
    CASE timing_pc = "returned"          -> ttg_ret
      [] timing_pc = "red_returned"      -> ttr_ret
      [] timing_pc = "duration_returned" -> gpd_ret
      [] OTHER                           -> Walked(0, 0)

\* C15: for a signal that does not exist or whose program or phase list is
\* empty, calculate_time_to_green, calculate_time_to_red and
\* get_green_phase_duration each return 0, whatever the current colour is.
C15_ZeroSentinel ==
    (timing_pc # "idle" /\ NoSignalProgram(tls))
    => (~LastReturn.diverged /\ LastReturn.v = 0)

\* C16: for a program of n >= 1 phases, any current phase index and any
\* colours, each function of the timing extractor stops after looking at no
\* more than n phases.
C16_WalksTerminate ==
    (timing_pc # "idle" /\ tls.kind = "ok" /\ Len(tls.phases) >= 1)
    => (~LastReturn.diverged /\ LastReturn.visits <= Len(tls.phases))

\* C19: called for a direction that is red or yellow now,
\* calculate_time_to_green returns the remaining time of the current phase
\* plus the full durations of the following phases, in cyclic order, up to
\* but not including the first phase in which the direction is green.
C19_TimeToGreenFromRedOrYellow ==
    (timing_pc = "returned" /\ ValidSnapshot(tls, signal_index)
     /\ ~CurrentlyGreen(tls, signal_index) /\ GreenAhead(tls, signal_index) # {})
    => (/\ ~ttg_ret.diverged
        /\ ttg_ret.v = tls.next + DurationsAfter(tls, NextGreenAhead(tls, signal_index) - 1))

\* a red or yellow direction with a phase of positive duration between now
\* and its next green phase
C19_Witness ==
    /\ timing_pc = "returned"
    /\ ValidSnapshot(tls, signal_index)
    /\ ~CurrentlyGreen(tls, signal_index)
    /\ GreenAhead(tls, signal_index) # {}
    /\ NextGreenAhead(tls, signal_index) >= 2
    /\ tls.next > 0
    /\ ttg_ret.v > tls.next

\* C20: called for a direction that is green now, calculate_time_to_red
\* returns the remaining time of the current phase, plus the duration of the
\* immediately following phase if the direction is yellow in it.
C20_GreenAddsYellow ==
    (timing_pc = "red_returned" /\ tls.kind = "ok" /\ signal_index < Len(tls.state)
     /\ Len(tls.phases) >= 1 /\ CurrentlyGreen(tls, signal_index))
    => (/\ ~ttr_ret.diverged
        /\ ttr_ret.v = tls.next + YellowAfter(tls, signal_index, 1))

\* a green direction followed by a yellow phase of positive duration
C20_Witness ==
    /\ timing_pc = "red_returned"
    /\ ValidSnapshot(tls, signal_index)
    /\ CurrentlyGreen(tls, signal_index)
    /\ YellowAfter(tls, signal_index, 1) > 0
    /\ ttr_ret.v = tls.next + YellowAfter(tls, signal_index, 1)

\* the phases of the program, counted from phase 0, that are green for the direction
GreenPhases(j, idx) ==
    {k \in DOMAIN j.phases : idx < Len(j.phases[k].state)
                             /\ Upper(j.phases[k].state[idx + 1]) = "G"}

FirstGreenPhase(j, idx) ==
    CHOOSE k \in GreenPhases(j, idx) : \A m \in GreenPhases(j, idx) : k <= m

\* C21: get_green_phase_duration returns the duration of the first phase, in
\* program order starting from phase 0, in which the direction is green,
\* whatever the current phase is; it returns 0 when no phase is green for the
\* direction.
C21_FirstGreenInProgramOrder ==
    (timing_pc = "duration_returned" /\ tls.kind = "ok")
    => (/\ ~gpd_ret.diverged
        /\ gpd_ret.v = IF GreenPhases(tls, signal_index) = {} THEN 0
                       ELSE tls.phases[FirstGreenPhase(tls, signal_index)].duration)

\* the current phase is a later green phase of another duration than the first
\* green phase of the program, and the duration of the first one came back
C21_Witness ==
    /\ timing_pc = "duration_returned"
    /\ ValidSnapshot(tls, signal_index)
    /\ GreenPhases(tls, signal_index) # {}
    /\ tls.phase + 1 \in GreenPhases(tls, signal_index)
    /\ tls.phase + 1 > FirstGreenPhase(tls, signal_index)
    /\ tls.phases[tls.phase + 1].duration # tls.phases[FirstGreenPhase(tls, signal_index)].duration
    /\ gpd_ret.v = tls.phases[FirstGreenPhase(tls, signal_index)].duration

\* what calculate_time_to_red returned against what calculate_time_to_green
\* gives for the same snapshot, as get_signal_timing_with_speed_control calls
\* them (lines 381-382)
RedIsGreenPlus(extra) ==
    /\ ~ttr_ret.diverged
    /\ ~calculate_time_to_green(tls, signal_index).diverged
    /\ ttr_ret.v = calculate_time_to_green(tls, signal_index).v + extra

\* the duration of the next green phase, plus that of the phase after it when
\* the direction is yellow in it
NextGreenSpan(j, idx) ==
    PhaseAfter(j, NextGreenAhead(j, idx)).duration + YellowAfter(j, idx, NextGreenAhead(j, idx) + 1)

\* C30 as stated: for a direction that is red now, a valid phase index and a
\* program with a green phase, time_to_red = time_to_green + the duration of
\* the next green phase (+ the yellow phase after it), hence R > S.
C30_Original ==
    (timing_pc = "red_returned" /\ ValidSnapshot(tls, signal_index)
     /\ CurrentlyRed(tls, signal_index) /\ GreenAhead(tls, signal_index) # {})
    => (/\ RedIsGreenPlus(NextGreenSpan(tls, signal_index))
        /\ ttr_ret.v > calculate_time_to_green(tls, signal_index).v)

\* C30 amended: the equation holds, so R >= S; R > S when the next green
\* phase, or the yellow phase after it, has a positive duration.
C30_Amended ==
    (timing_pc = "red_returned" /\ ValidSnapshot(tls, signal_index)
     /\ CurrentlyRed(tls, signal_index) /\ GreenAhead(tls, signal_index) # {})
    => (/\ RedIsGreenPlus(NextGreenSpan(tls, signal_index))
        /\ ttr_ret.v >= calculate_time_to_green(tls, signal_index).v
        /\ NextGreenSpan(tls, signal_index) > 0
           => ttr_ret.v > calculate_time_to_green(tls, signal_index).v)

\* a red direction with phases of positive duration before its next green
\* phase and a green phase of positive duration: 0 < S < R
C30_Witness ==
    /\ timing_pc = "red_returned"
    /\ ValidSnapshot(tls, signal_index)
    /\ CurrentlyRed(tls, signal_index)
    /\ GreenAhead(tls, signal_index) # {}
    /\ NextGreenAhead(tls, signal_index) >= 2
    /\ PhaseAfter(tls, NextGreenAhead(tls, signal_index)).duration > 0
    /\ calculate_time_to_green(tls, signal_index).v > tls.next
    /\ ttr_ret.v > calculate_time_to_green(tls, signal_index).v

(***************************************************************************)
(* Claims about get_signal_direction_index, checked under SpecDirection    *)
(***************************************************************************)
\* the (signal, link) pair of a call
CacheKey(call) == <<call.junction_id, call.edge_id>>

\* C17: once an index is resolved for a (signal, link) pair the cached entry
\* stays as it is: no step overwrites or removes an entry of the direction
\* cache, and a call for a pair that has an entry returns that entry without
\* asking the simulator for the controlled lanes.
C17_CacheImmutable ==
    [][/\ \A k \in DOMAIN direction_cache :
             k \in DOMAIN direction_cache' /\ direction_cache'[k] = direction_cache[k]
       /\ (dir_args' # dir_args \/ dir_ret' # dir_ret)
             => (CacheKey(dir_args') \in DOMAIN direction_cache
                   => (/\ dir_ret'.index = direction_cache[CacheKey(dir_args')]
                       /\ ~dir_ret'.queried))]_vars

\* a call answered from the cache although the controlled lanes would now
\* resolve to another index
C17_Witness ==
    /\ CacheKey(dir_args) \in DOMAIN direction_cache
    /\ ~dir_ret.queried
    /\ dir_args.answer.ok
    /\ dir_ret.index = direction_cache[CacheKey(dir_args)]
    /\ DirectionIndex(EmptyDict, dir_args.answer, dir_args.junction_id,
                      dir_args.edge_id).index # dir_ret.index

\* the sign of the parent link of a lane matches the sign of the approach link
SameSign(lane, edge_id) ==
    /\ IntOf(Head(lane)).ok
    /\ (edge_id > 0 /\ IntOf(Head(lane)).n > 0) \/ (edge_id <= 0 /\ IntOf(Head(lane)).n < 0)

\* the positions, counted from 0, of the controlled lanes that match
MatchingLanes(lanes, edge_id) == {i \in 0..(Len(lanes) - 1) : SameSign(lanes[i + 1], edge_id)}

\* C18: get_signal_direction_index returns the position, among the controlled
\* lanes of the signal, of the first lane whose parent link has the direction
\* sign of the approach link, and, when no controlled lane matches, 0 for a
\* positive link and 2 for a negative link.
C18_FirstMatchingLane ==
    (dir_ret.queried /\ dir_args.answer.ok)
    => IF MatchingLanes(dir_args.answer.lanes, dir_args.edge_id) # {}
       THEN \A i \in MatchingLanes(dir_args.answer.lanes, dir_args.edge_id) :
                (\A m \in MatchingLanes(dir_args.answer.lanes, dir_args.edge_id) : i <= m)
                => dir_ret.index = i
       ELSE dir_ret.index = (IF dir_args.edge_id > 0 THEN 0 ELSE 2)

(***************************************************************************)
(* Claims about the application loop, checked under Spec                   *)
(***************************************************************************)
\* the number of records of the log for a pair <<vehicle id, edge>>
RecordCount(predictions, p) ==
    Cardinality({k \in DOMAIN predictions :
                    predictions[k].vehicle_id = p[1] /\ predictions[k].current_edge = p[2]})

\* the number of speed writes made for a pair <<vehicle id, edge>>
WriteCount(writes, p) ==
    Cardinality({k \in DOMAIN writes : writes[k].vehicle_id = p[1] /\ writes[k].edge = p[2]})

\* C7: idempotence: once a (vehicle, link) pair has its record, invoking
\* update_av_signal_monitoring again while the vehicle is still on that link
\* produces no second record and no second speed write for the pair.
C7_Idempotent ==
    [][\A p \in on_link_since :
          /\ RecordCount(av_signal_predictions', p) = RecordCount(av_signal_predictions, p)
          /\ WriteCount(sim_speed_writes', p) = WriteCount(sim_speed_writes, p)]_vars

\* C8: at most once per link: over any run at most one record is created per
\* (vehicle id, link) pair, also when the vehicle leaves the link and comes back.
C8_AtMostOncePerLink ==
    \A i, k \in DOMAIN av_signal_predictions :
        (/\ av_signal_predictions[i].vehicle_id = av_signal_predictions[k].vehicle_id
         /\ av_signal_predictions[i].current_edge = av_signal_predictions[k].current_edge)
        => i = k

\* the k-th speed write belongs to the k-th record: same vehicle, same link,
\* and the speed written is the record's V converted to m/s
WriteOfRecord(write, record) ==
    /\ write.vehicle_id = record.vehicle_id
    /\ write.edge = record.current_edge
    /\ write.speed = Frac(10 * record.optimal_speed[1], 36 * record.optimal_speed[2])

RecordsOn(edge) == {k \in DOMAIN av_signal_predictions :
                      av_signal_predictions[k].current_edge = edge}

WritesOn(edge) == {k \in DOMAIN sim_speed_writes : sim_speed_writes[k].edge = edge}

\* C13: when the approach link has no corresponding signal the advisory is
\* skipped: no speed is written to the vehicle and no record is appended.
C13_UnmappedSkipped ==
    \A edge \in target_road_edges :
        get_signal_id_for_road(IntOf(edge).n) = "None"
        => (RecordsOn(edge) = {} /\ WritesOn(edge) = {})

\* C14: when the loop is cancelled by SIGINT after records were computed,
\* those records are written by save_results before the process exits.
C14_FlushedOnInterrupt ==
    (loop_pc = "interrupted" /\ av_signal_predictions # <<>>)
    => (saved_predictions.written /\ saved_predictions.records = av_signal_predictions)

\* the vehicle is registered as an AV
IsRegisteredAv(vehicle_id) ==
    vehicle_id \in DOMAIN vehicle_types /\ vehicle_types[vehicle_id] = AUTONOMOUS_CAR_TYPE

\* C23: the loop is restricted to AVs on tracked links: a vehicle whose
\* registered type is not autonomous_car, or whose current link is not in the
\* tracked set, never receives a speed write nor a record.
C23_OnlyAvOnTrackedLinks ==
    /\ \A k \in DOMAIN av_signal_predictions :
          /\ IsRegisteredAv(av_signal_predictions[k].vehicle_id)
          /\ av_signal_predictions[k].current_edge \in target_road_edges
    /\ \A k \in DOMAIN sim_speed_writes :
          /\ IsRegisteredAv(sim_speed_writes[k].vehicle_id)
          /\ sim_speed_writes[k].edge \in target_road_edges

\* the loop has run over a gasoline car on a tracked link and an AV on a link
\* that is not tracked, and neither has a record or a speed write
C23_Witness ==
    /\ loop_pc \in {"control", "step"}
    /\ av_signal_predictions # <<>>
    /\ \E g, a \in GetIDList :
          /\ g \in DOMAIN vehicle_types /\ vehicle_types[g] = GASOLINE_CAR_TYPE
          /\ sim_vehicles[g] \in target_road_edges
          /\ IsRegisteredAv(a)
          /\ sim_vehicles[a] \notin target_road_edges
          /\ RecordCount(av_signal_predictions, <<g, sim_vehicles[g]>>) = 0
          /\ WriteCount(sim_speed_writes, <<g, sim_vehicles[g]>>) = 0
          /\ RecordCount(av_signal_predictions, <<a, sim_vehicles[a]>>) = 0
          /\ WriteCount(sim_speed_writes, <<a, sim_vehicles[a]>>) = 0

\* C28: a key leaves av_vehicles_tracked only when its vehicle is no longer in
\* the simulation: the key of every record whose vehicle is still present
\* (ids like av_0 and dyn_2000 included) is in av_vehicles_tracked.
C28_KeysOfPresentVehiclesSurvive ==
    \A k \in DOMAIN av_signal_predictions :
        av_signal_predictions[k].vehicle_id \in GetIDList
        => TrackingKey(av_signal_predictions[k].vehicle_id,
                       av_signal_predictions[k].current_edge) \in av_vehicles_tracked

(***************************************************************************)
(* Claims about the vehicle control parameters, checked under SpecParams   *)
(* and SpecControl                                                         *)
(***************************************************************************)
\* C26: the P used by the advisory is the --av-penetration percentage divided
\* by 100, for every percentage in 0..100 and every --vehicles value: once
\* main is past its start, target_av_penetration (in thousandths) is ten
\* times the percentage.
C26_PenetrationIsPercentOver100 ==
    loop_pc # "start" => target_av_penetration = 10 * args.av_penetration

Max(a, b) == IF a >= b THEN a ELSE b

\* update_vehicle_control has nothing to do: the target is 0, the run is
\* within STOP_GENERATION_BEFORE_END of end_time, or the last control check
\* was less than 3 s ago
ControlOff ==
    \/ target_vehicle_count = 0
    \/ sim_time >= (DEFAULT_END_TIME - STOP_GENERATION_BEFORE_END) * 10
    \/ sim_time - last_vehicle_control_time < ControlPeriod

\* C27: one call of update_vehicle_control attempts at most
\* min(target - current vehicle count, MAX_VEHICLES_PER_STEP) additions, and
\* none (no attempt, no vehicle added) when the target is 0, when
\* current_time >= end_time - 60, or when less than 3 s have passed since the
\* last control check.
C27_AdditionsBoundedAndThrottled ==
    [][loop_pc = "control"
       => /\ add_attempts' <= Max(0, Min(target_vehicle_count - Cardinality(GetIDList),
                                         MAX_VEHICLES_PER_STEP))
          /\ vehicle_id_counter' - vehicle_id_counter <= add_attempts'
          /\ ControlOff => (/\ add_attempts' = 0
                            /\ vehicle_id_counter' = vehicle_id_counter
                            /\ sim_vehicles' = sim_vehicles)]_vars

\* a call made with a target more than MAX_VEHICLES_PER_STEP above the
\* vehicles present attempted MAX_VEHICLES_PER_STEP additions
C27_Witness ==
    /\ loop_pc = "step"
    /\ last_vehicle_control_time = sim_time
    /\ target_vehicle_count - Cardinality(GetIDList) > MAX_VEHICLES_PER_STEP
    /\ add_attempts = MAX_VEHICLES_PER_STEP

(***************************************************************************)
(* Claims about stop monitoring, checked under SpecStops                   *)
(***************************************************************************)
\* the stop events logged for a vehicle at time from or later
EventsSince(vehicle_id, from) ==
    {k \in DOMAIN stop_events : /\ stop_events[k].vehicle_id = vehicle_id
                                /\ stop_events[k].time >= from}

RECURSIVE SumCounts(_, _)
SumCounts(counts, edges) ==
    IF edges = {} THEN 0
    ELSE LET edge_id == CHOOSE x \in edges : TRUE
         IN  counts[edge_id] + SumCounts(counts, edges \ {edge_id})

\* C24: a stop is counted at most once per episode: an episode of consecutive
\* checks that observe the vehicle at speed <= 0.1 m/s on monitored edges
\* increments the stop count exactly once, at the first check that is
\* MIN_STOP_DURATION (1 s) or more after the first stopped observation, and
\* never again in the episode; a stop seen at one check only is never
\* counted.
C24_CountedOncePerEpisode ==
    /\ \A v \in DOMAIN stop_episodes :
          /\ stop_episodes[v].checks = 1 => EventsSince(v, stop_episodes[v].start) = {}
          /\ stop_episodes[v].due < 0 => EventsSince(v, stop_episodes[v].start) = {}
          /\ stop_episodes[v].due >= 0
             => /\ Cardinality(EventsSince(v, stop_episodes[v].start)) = 1
                /\ \A k \in EventsSince(v, stop_episodes[v].start) :
                      /\ stop_events[k].time = stop_episodes[v].due
                      /\ stop_events[k].duration = stop_episodes[v].due - stop_episodes[v].start
                      /\ stop_events[k].duration >= MIN_STOP_DURATION
    /\ Len(stop_events) = stop_due_total
    /\ SumCounts(stop_counts, DOMAIN stop_counts) = stop_due_total

\* a vehicle observed stopped at three checks or more in a row, counted once,
\* at a check before the last one
C24_Witness ==
    \E v \in DOMAIN stop_episodes :
        /\ stop_episodes[v].checks >= 3
        /\ stop_episodes[v].due >= 0
        /\ stop_episodes[v].due < last_check_time
        /\ Cardinality(EventsSince(v, stop_episodes[v].start)) = 1
        /\ SumCounts(stop_counts, DOMAIN stop_counts) = stop_due_total

\* C25: the stop state is reset on recovery: a vehicle that a check observes
\* moving above the threshold, on an edge that is not monitored, or absent has
\* no stop state after that check, so that a later stop starts a new episode
\* with its own start time and can be counted again: the stop states are those
\* of the vehicles in an episode, each with the start time of that episode and
\* counted only for that episode.
C25_ResetOnRecovery ==
    /\ DOMAIN vehicle_stop_states = DOMAIN stop_episodes
    /\ \A v \in DOMAIN vehicle_stop_states :
          /\ vehicle_stop_states[v].start_time = stop_episodes[v].start
          /\ vehicle_stop_states[v].counted = (stop_episodes[v].due >= 0)

\* a vehicle counted in one stop, recovered, and counted again in a later stop
C25_Witness ==
    \E v \in DOMAIN vehicle_stop_states :
        \E i, k \in DOMAIN stop_events :
            /\ stop_events[i].vehicle_id = v
            /\ stop_events[k].vehicle_id = v
            /\ stop_events[i].time < vehicle_stop_states[v].start_time
            /\ stop_events[k].time > vehicle_stop_states[v].start_time
            /\ vehicle_stop_states[v].counted

====
